---- MODULE Spec2Model ----
(***************************************************************************)
(* A state-machine model of the Qrack dense state-vector simulator:        *)
(*   src/par_for.hpp   - the atomic-counter parallel dispatcher            *)
(*   src/qrack_ocl.cpp - the OpenCL kernels and the CoherentUnit class     *)
(*   src/qrack.hpp     - the header-only Register class                    *)
(*                                                                         *)
(* Amplitudes are exact: stateVec[i] is a Gaussian integer <<re, im>> and  *)
(* the whole vector carries one real factor whose square is the reduced    *)
(* rational scaleSq, so  amplitude(i) = sqrt(scaleSq) * stateVec[i].       *)
(* runningNorm is kept through its square runningNormSq (a reduced         *)
(* rational), so  runningNorm != 1.0  is  runningNormSq # <<1, 1>>.        *)
(***************************************************************************)
EXTENDS Integers, Sequences, FiniteSets, TLC

\* ------------------------------------------------------------------------
\* Bounds of the exploration
\* ------------------------------------------------------------------------
MaxCpus == 2
MaxEnd == 3
MaxQubits == 2
MaxScale == 2
MaxThreads == 2
MaxCalls == 3
MaxItems == 2

\* Widths of the C++ types
IntBits == 32
NativeBits == 64
\* qubits of one binary-coded decimal digit
NibbleBits == 4

VARIABLES
    qubitCount,     \* CoherentUnit::qubitCount / Register::qubitCount
    maxQPower,      \* CoherentUnit::maxQPower
    stateVec,       \* the amplitude array, index -> <<re, im>>
    scaleSq,        \* square of the common real factor of stateVec
    runningNormSq,  \* square of CoherentUnit::runningNorm
    op,             \* the last public operation and what it returned
    other,          \* a second CoherentUnit: Cohere's toCopy, Decohere's destination
    num_cpus,       \* par_for: std::thread::hardware_concurrency()
    begin,          \* par_for: first index
    end,            \* par_for: one past the last index
    idx,            \* par_for: the shared atomic counter
    futures,        \* par_for: number of futures launched so far
    joined,         \* par_for: number of futures already joined by get()
    wpc,            \* par_for: position of each worker
    wi,             \* par_for: each worker's local i
    calls,          \* par_for: how many times fn was invoked for each index
    mpc,            \* par_for: position of the calling thread
    ocl,            \* OCLSingleton: m_pInstance, the constructions, the callers
    items,          \* a kernel launch: each work-item's position and locals
    shared          \* a kernel launch: the buffers the work-items share

regVars == <<qubitCount, maxQPower, stateVec, scaleSq, runningNormSq, op, other>>
pfVars == <<num_cpus, begin, end, idx, futures, joined, wpc, wi, calls, mpc>>
oclVars == <<ocl, items, shared>>
vars == <<qubitCount, maxQPower, stateVec, scaleSq, runningNormSq, op, other,
          num_cpus, begin, end, idx, futures, joined, wpc, wi, calls, mpc,
          ocl, items, shared>>

\* ------------------------------------------------------------------------
\* Integer helpers (bit operations of the C++ and OpenCL code)
\* ------------------------------------------------------------------------
Pow2(n) == 2 ^ n

RECURSIVE BitAnd(_, _)
BitAnd(a, b) ==
    IF a = 0 \/ b = 0 THEN 0
    ELSE (a % 2) * (b % 2) + 2 * BitAnd(a \div 2, b \div 2)

RECURSIVE BitOr(_, _)
BitOr(a, b) ==
    IF a = 0 THEN b
    ELSE IF b = 0 THEN a
    ELSE (IF (a % 2) + (b % 2) > 0 THEN 1 ELSE 0) + 2 * BitOr(a \div 2, b \div 2)

Shl(a, n) == a * Pow2(n)
Shr(a, n) == a \div Pow2(n)

RECURSIVE GCD(_, _)
GCD(a, b) == IF b = 0 THEN a ELSE GCD(b, a % b)

Abs(a) == IF a < 0 THEN -a ELSE a

\* ------------------------------------------------------------------------
\* Exact numbers: reduced rationals <<n, d>> and Gaussian integers <<re, im>>
\* ------------------------------------------------------------------------
Rat(n, d) == IF n = 0 THEN <<0, 1>> ELSE <<n \div GCD(Abs(n), d), d \div GCD(Abs(n), d)>>
ROne == <<1, 1>>
RZero == <<0, 1>>
RMul(a, b) == Rat(a[1] * b[1], a[2] * b[2])
RDiv(a, b) == Rat(a[1] * b[2], a[2] * b[1])
RAdd(a, b) == Rat(a[1] * b[2] + b[1] * a[2], a[2] * b[2])
RSub(a, b) == Rat(a[1] * b[2] - b[1] * a[2], a[2] * b[2])
RLess(a, b) == a[1] * b[2] < b[1] * a[2]

CZero == <<0, 0>>
COne == <<1, 0>>
CAdd(a, b) == <<a[1] + b[1], a[2] + b[2]>>
CMul(a, b) == <<a[1] * b[1] - a[2] * b[2], a[1] * b[2] + a[2] * b[1]>>
\* std::norm of a mantissa
normSqrd(a) == a[1] * a[1] + a[2] * a[2]

\* OpenCL zmul: (lhs * (rhs.y, -rhs.y)) + (rhs.x * (lhs.y, lhs.x)), componentwise
zmul(lhs, rhs) ==
    <<lhs[1] * rhs[2] + rhs[1] * lhs[2], (0 - lhs[2]) * rhs[2] + rhs[1] * lhs[1]>>

RECURSIVE SumOver(_, _, _)
\* sum of f[i] for lo <= i < hi
SumOver(f, lo, hi) == IF lo >= hi THEN 0 ELSE f[lo] + SumOver(f, lo + 1, hi)

RECURSIVE GcdOver(_, _, _)
GcdOver(sv, lo, hi) ==
    IF lo >= hi THEN 0
    ELSE GCD(GCD(Abs(sv[lo][1]), Abs(sv[lo][2])), GcdOver(sv, lo + 1, hi))

\* ------------------------------------------------------------------------
\* Register values: the fields of one CoherentUnit / Register object
\* ------------------------------------------------------------------------
VecLen(sv) == Cardinality(DOMAIN sv)

MkReg(qc, mqp, sv, sc, rn) ==
    [qubitCount |-> qc, maxQPower |-> mqp, stateVec |-> sv, scaleSq |-> sc,
     runningNormSq |-> rn]

\* The same amplitudes with the mantissas divided by their common divisor and
\* the divisor moved into the common factor: the unique representative.
Canon(r) ==
    LET g == GcdOver(r.stateVec, 0, VecLen(r.stateVec))
    IN  IF g = 0 THEN [r EXCEPT !.scaleSq = ROne]
        ELSE [r EXCEPT !.stateVec = [i \in DOMAIN r.stateVec |->
                                       <<r.stateVec[i][1] \div g, r.stateVec[i][2] \div g>>],
                       !.scaleSq = RMul(r.scaleSq, <<g * g, 1>>)]

This == MkReg(qubitCount, maxQPower, stateVec, scaleSq, runningNormSq)

\* the sum of norm(stateVec[i]) over the whole array, as a rational
NormSq(r) ==
    RMul(r.scaleSq,
         <<SumOver([i \in DOMAIN r.stateVec |-> normSqrd(r.stateVec[i])], 0, VecLen(r.stateVec)), 1>>)

\* runningNorm = par_norm(maxQPower, stateVec)
UpdateRunningNorm(r) == [r EXCEPT !.runningNormSq = NormSq(r)]

\* stateVec[lcv] /= runningNorm for every lcv; runningNorm = 1.0
NormalizeState(r) ==
    [r EXCEPT !.scaleSq = RDiv(r.scaleSq, r.runningNormSq), !.runningNormSq = ROne]

\* if (runningNorm != 1.0) NormalizeState();
Normalized(r) == IF r.runningNormSq # ROne THEN NormalizeState(r) ELSE r

\* ------------------------------------------------------------------------
\* The register is parked while the dispatcher is explored, and vice versa
\* ------------------------------------------------------------------------
NoOp == [kind |-> "none"]

\* no second object
NoReg == MkReg(0, 0, <<>>, ROne, ROne)

RegIdle ==
    /\ qubitCount = 0
    /\ maxQPower = 0
    /\ stateVec = <<>>
    /\ scaleSq = <<1, 1>>
    /\ runningNormSq = <<1, 1>>
    /\ op = NoOp
    /\ other = NoReg

\* no singleton call and no kernel launch is modelled
NoOcl == [m_pInstance |-> 0, built |-> <<>>, tpc |-> <<>>, targ |-> <<>>, rets |-> <<>>]

OclIdle ==
    /\ ocl = NoOcl
    /\ items = <<>>
    /\ shared = <<>>

PfIdle ==
    /\ num_cpus = 0
    /\ begin = 0
    /\ end = 0
    /\ idx = 0
    /\ futures = 0
    /\ joined = 0
    /\ wpc = <<>>
    /\ wi = <<>>
    /\ calls = <<>>
    /\ mpc = "idle"

\* ------------------------------------------------------------------------
\* kernel apply2x2 and CoherentUnit::Apply2x2 (src/qrack_ocl.cpp)
\* ------------------------------------------------------------------------
\* A gate matrix: four Gaussian-integer entries m[1..4] (mtrx[0..3]) times a
\* real factor whose square is s.
pauliX == [m |-> <<CZero, COne, COne, CZero>>, s |-> ROne]
had == [m |-> <<COne, COne, COne, <<-1, 0>>>>, s |-> <<1, 2>>]

RECURSIVE ExpandIndex(_, _, _, _, _)
\* for (p = 0; p < bitCount; p++) { iLow = iHigh % qPowersSorted[p]; i += iLow;
\*                                  iHigh = (iHigh - iLow)<<1; }   i += iHigh;
ExpandIndex(p, bitCount, qPowersSorted, i, iHigh) ==
    IF p >= bitCount THEN i + iHigh
    ELSE ExpandIndex(p + 1, bitCount, qPowersSorted,
                     i + (iHigh % qPowersSorted[p + 1]),
                     Shl(iHigh - (iHigh % qPowersSorted[p + 1]), 1))

RECURSIVE apply2x2(_, _, _, _)
\* The work-items' loops taken together visit lcv = 0, 1, 2, ... while the
\* expanded index is below maxI; the pairs they touch are disjoint, so the
\* visits are applied one after the other.  nrm is real: its mantissa is
\* (1, 0) and its size is carried by the caller into the common factor.
apply2x2(sv, mtrx, ul, lcv) ==
    LET i == ExpandIndex(0, ul.bitCount, ul.qPowersSorted, 0, lcv)
        Y0 == sv[i + ul.offset1]
        q1 == sv[i + ul.offset2]
        n0 == zmul(COne, CAdd(zmul(mtrx[1], Y0), zmul(mtrx[2], q1)))
        n1 == zmul(COne, CAdd(zmul(mtrx[3], Y0), zmul(mtrx[4], q1)))
    IN  IF i >= ul.maxI THEN sv
        ELSE apply2x2([sv EXCEPT ![i + ul.offset1] = n0, ![i + ul.offset2] = n1],
                      mtrx, ul, lcv + 1)

Apply2x2(r, offset1, offset2, mtrx, bitCount, qPowersSorted, doApplyNorm, doCalcNorm) ==
    LET nrmSq == IF doApplyNorm THEN RDiv(ROne, r.runningNormSq) ELSE ROne
        ul == [bitCount |-> bitCount, maxI |-> r.maxQPower, offset1 |-> offset1,
               offset2 |-> offset2, qPowersSorted |-> qPowersSorted]
        after == [r EXCEPT !.stateVec = apply2x2(r.stateVec, mtrx.m, ul, 0),
                           !.scaleSq = RMul(RMul(r.scaleSq, mtrx.s), nrmSq)]
    IN  IF doCalcNorm THEN UpdateRunningNorm(after)
        ELSE [after EXCEPT !.runningNormSq = ROne]

ApplySingleBit(r, qubitIndex, mtrx, doCalcNorm) ==
    Apply2x2(r, Shl(1, qubitIndex), 0, mtrx, 1, <<Shl(1, qubitIndex)>>, TRUE, doCalcNorm)

SortedPowers(a, b) ==
    IF a < b THEN <<Shl(1, a), Shl(1, b)>> ELSE <<Shl(1, b), Shl(1, a)>>

ApplyControlled2x2Swapped(r, control, target, mtrx, doCalcNorm) ==
    Apply2x2(r, Shl(1, control) + Shl(1, target), Shl(1, target), mtrx, 2,
             SortedPowers(control, target), FALSE, doCalcNorm)

ApplyControlled2x2(r, control, target, mtrx, doCalcNorm) ==
    Apply2x2(r, Shl(1, control) + Shl(1, target), Shl(1, control), mtrx, 2,
             SortedPowers(control, target), FALSE, doCalcNorm)

ApplyAntiControlled2x2(r, control, target, mtrx, doCalcNorm) ==
    Apply2x2(r, 0, Shl(1, target), mtrx, 2,
             SortedPowers(control, target), FALSE, doCalcNorm)

\* CoherentUnit::X, H, CNOT, AntiCNOT on a register value (arguments valid)
DoX(r, q) == ApplySingleBit(r, q, pauliX, FALSE)
DoH(r, q) == ApplySingleBit(r, q, had, TRUE)
DoCNOT(r, control, target) == ApplyControlled2x2(r, control, target, pauliX, FALSE)
DoAntiCNOT(r, control, target) == ApplyAntiControlled2x2(r, control, target, pauliX, FALSE)

\* ------------------------------------------------------------------------
\* CoherentUnit::Prob and CoherentUnit::M
\* ------------------------------------------------------------------------
BitSet(lcv, q) == BitAnd(lcv, Shl(1, q)) = Shl(1, q)

\* the loop of Prob: sum of norm(stateVec[lcv]) over lcv with bit qubitIndex set
OneChance(r, q) ==
    RMul(r.scaleSq,
         <<SumOver([i \in DOMAIN r.stateVec |->
                      IF BitSet(i, q) THEN normSqrd(r.stateVec[i]) ELSE 0],
                   0, VecLen(r.stateVec)), 1>>)

\* the analogous sum over lcv with bit qubitIndex clear
ZeroChance(r, q) ==
    RMul(r.scaleSq,
         <<SumOver([i \in DOMAIN r.stateVec |->
                      IF BitSet(i, q) THEN 0 ELSE normSqrd(r.stateVec[i])],
                   0, VecLen(r.stateVec)), 1>>)

\* Rand() is in [0, 1): result = (prob < oneChance) && oneChance > 0.0
MCan(r, q, result) ==
    IF result THEN RLess(RZero, OneChance(Normalized(r), q))
    ELSE RLess(OneChance(Normalized(r), q), ROne)

\* M with the outcome and the random phase (a unit Gaussian integer) chosen
DoM(r, q, result, phase) ==
    LET n == Normalized(r)
        oneChance == OneChance(n, q)
        nrmlzrSq == IF result
                    THEN (IF RLess(RZero, oneChance) THEN RMul(oneChance, oneChance) ELSE ROne)
                    ELSE (IF RLess(oneChance, ROne) THEN RSub(ROne, oneChance) ELSE ROne)
        sv == [lcv \in DOMAIN n.stateVec |->
                 IF BitSet(lcv, q) = result THEN CMul(phase, n.stateVec[lcv]) ELSE CZero]
    IN  UpdateRunningNorm([n EXCEPT !.stateVec = sv,
                                    !.scaleSq = RDiv(n.scaleSq, nrmlzrSq)])

\* ------------------------------------------------------------------------
\* The CoherentUnit state machine: gates, measurement and probability reads
\* ------------------------------------------------------------------------
\* what is recorded of the last operation
\* "was" remembers the qubit count the operation started from
Did(kind, args, ret) ==
    [kind |-> kind, args |-> args, ret |-> ret, threw |-> FALSE, oob |-> FALSE,
     was |-> qubitCount]
Threw(kind, args) ==
    [kind |-> kind, args |-> args, ret |-> 0, threw |-> TRUE, oob |-> FALSE,
     was |-> qubitCount]

\* cos/sin of the random angle, restricted to the quarter turns 0 and 1
Phases == {<<1, 0>>, <<0, 1>>}

Qubits == 0 .. (qubitCount - 1)

\* |perm> with the given phase: std::fill with zero, stateVec[perm] = phase
BasisVec(n, perm, phase) == [i \in 0 .. (Pow2(n) - 1) |-> IF i = perm THEN phase ELSE CZero]

\* CoherentUnit(qBitCount, initState) for a small qBitCount and initState < 2^qBitCount
Init ==
    /\ PfIdle
    /\ OclIdle
    /\ \E n \in 1 .. MaxQubits : \E perm \in 0 .. (Pow2(n) - 1) : \E phase \in Phases :
          /\ qubitCount = n
          /\ maxQPower = Shl(1, n)
          /\ stateVec = BasisVec(n, perm, phase)
          /\ scaleSq = ROne
          /\ runningNormSq = ROne
    /\ op = Did("ctor", <<>>, 0)
    /\ other = NoReg

\* The object takes the fields of r (in the unique representation) and the
\* operation is recorded.  The caller has deleted the second object of the
\* previous call, if there was one.
Becomes(r, o) ==
    LET c == Canon(r)
    IN  /\ qubitCount' = c.qubitCount
        /\ maxQPower' = c.maxQPower
        /\ stateVec' = c.stateVec
        /\ scaleSq' = c.scaleSq
        /\ runningNormSq' = c.runningNormSq
        /\ op' = o
        /\ other' = NoReg
        /\ UNCHANGED <<pfVars, oclVars>>

\* Division by a zero runningNorm yields NaN amplitudes, which are not
\* represented: an all-zero register takes no further operation.  The
\* squared norm of the vector is kept within [1/MaxScale, MaxScale].
Operable ==
    /\ runningNormSq # RZero
    /\ NormSq(This)[1] <= MaxScale
    /\ NormSq(This)[2] <= MaxScale

X(q) ==
    /\ Operable
    /\ Becomes(DoX(This, q), Did("X", <<q>>, 0))

H(q) ==
    /\ Operable
    /\ Becomes(DoH(This, q), Did("H", <<>>, 0))

\* if (control == target) throw std::invalid_argument(...)
CNOT(control, target) ==
    /\ Operable
    /\ IF control = target
       THEN Becomes(This, Threw("CNOT", <<control, target>>))
       ELSE Becomes(DoCNOT(This, control, target), Did("CNOT", <<control, target>>, 0))

M(q) ==
    /\ Operable
    /\ \E result \in BOOLEAN : \E phase \in Phases :
          /\ MCan(This, q, result)
          /\ Becomes(DoM(This, q, result, phase), Did("M", <<q>>, result))

Prob(q) ==
    /\ Operable
    /\ Becomes(Normalized(This), Did("Prob", <<q>>, OneChance(Normalized(This), q)))

Next ==
    \/ \E q \in Qubits : X(q)
    \/ \E q \in Qubits : H(q)
    \/ \E c \in Qubits : \E t \in Qubits : CNOT(c, t)
    \/ \E q \in Qubits : M(q)
    \/ \E q \in Qubits : Prob(q)

Spec == Init /\ [][Next]_vars

\* C2: at every Prob(q) read, the returned one-chance plus the analogous sum
\* over the basis states with bit q clear is 1.
C2_ProbSumsToOne ==
    op.kind = "Prob" => RAdd(op.ret, ZeroChance(This, op.args[1])) = ROne

\* a Prob read on a register reached by a measurement and a controlled gate
\* whose one-chance and zero-chance sum to something else than 1
C2_ReadOffNorm ==
    /\ op.kind = "Prob"
    /\ RAdd(op.ret, ZeroChance(This, op.args[1])) # ROne

\* ------------------------------------------------------------------------
\* Operations that can fail with std::invalid_argument, and the classical
\* logic macros built from SetBit and CNOT
\* ------------------------------------------------------------------------
RECURSIVE SortedSeq(_)
\* std::sort(qPowersSorted, qPowersSorted + 3) on distinct powers
SortedSeq(S) ==
    IF S = {} THEN <<>>
    ELSE LET m == CHOOSE x \in S : \A y \in S : x <= y
         IN  <<m>> \o SortedSeq(S \ {m})

DoCCNOT(r, control1, control2, target) ==
    Apply2x2(r, Shl(1, control1) + Shl(1, control2) + Shl(1, target),
             Shl(1, control1) + Shl(1, control2), pauliX, 3,
             SortedSeq({Shl(1, control1), Shl(1, control2), Shl(1, target)}), FALSE, FALSE)

DoAntiCCNOT(r, control1, control2, target) ==
    Apply2x2(r, 0, Shl(1, target), pauliX, 3,
             SortedSeq({Shl(1, control1), Shl(1, control2), Shl(1, target)}), FALSE, FALSE)

\* if (value != M(qubitIndex1)) X(qubitIndex1);
DoSetBit(r, q, value, result, phase) ==
    IF value # result THEN DoX(DoM(r, q, result, phase), q) ELSE DoM(r, q, result, phase)

AntiCNOT(control, target) ==
    /\ Operable
    /\ IF control = target
       THEN Becomes(This, Threw("AntiCNOT", <<>>))
       ELSE Becomes(DoAntiCNOT(This, control, target), Did("AntiCNOT", <<>>, 0))

CCNOT(control1, control2, target) ==
    /\ Operable
    /\ IF control1 = control2 \/ control1 = target \/ control2 = target
       THEN Becomes(This, Threw("CCNOT", <<>>))
       ELSE Becomes(DoCCNOT(This, control1, control2, target),
                    Did("CCNOT", <<>>, 0))

AntiCCNOT(control1, control2, target) ==
    /\ Operable
    /\ IF control1 = control2 \/ control1 = target \/ control2 = target
       THEN Becomes(This, Threw("AntiCCNOT", <<>>))
       ELSE Becomes(DoAntiCCNOT(This, control1, control2, target),
                    Did("AntiCCNOT", <<>>, 0))

SetBit(q, value) ==
    /\ Operable
    /\ \E result \in BOOLEAN : \E phase \in Phases :
          /\ MCan(This, q, result)
          /\ Becomes(DoSetBit(This, q, value, result, phase), Did("SetBit", <<>>, 0))

\* if (!(inputClassicalBit && inputQBit == outputBit)) {
\*     SetBit(outputBit, false); if (inputClassicalBit) CNOT(inputQBit, outputBit); }
CLAND(inputQBit, inputClassicalBit, outputBit) ==
    /\ Operable
    /\ IF inputClassicalBit /\ inputQBit = outputBit
       THEN Becomes(This, Did("CLAND", <<>>, 0))
       ELSE \E result \in BOOLEAN : \E phase \in Phases :
              /\ MCan(This, outputBit, result)
              /\ LET sb == DoSetBit(This, outputBit, FALSE, result, phase)
                 IN  IF ~inputClassicalBit
                     THEN Becomes(sb, Did("CLAND", <<>>, 0))
                     ELSE IF inputQBit = outputBit
                     THEN Becomes(sb, Threw("CLAND", <<>>))
                     ELSE Becomes(DoCNOT(sb, inputQBit, outputBit),
                                  Did("CLAND", <<>>, 0))

\* if (!(!inputClassicalBit && inputQBit == outputBit)) {
\*     if (inputClassicalBit) SetBit(outputBit, true);
\*     else { SetBit(outputBit, false); CNOT(inputQBit, outputBit); } }
CLOR(inputQBit, inputClassicalBit, outputBit) ==
    /\ Operable
    /\ IF ~inputClassicalBit /\ inputQBit = outputBit
       THEN Becomes(This, Did("CLOR", <<>>, 0))
       ELSE \E result \in BOOLEAN : \E phase \in Phases :
              /\ MCan(This, outputBit, result)
              /\ LET sb == DoSetBit(This, outputBit, inputClassicalBit, result, phase)
                 IN  IF inputClassicalBit
                     THEN Becomes(sb, Did("CLOR", <<>>, 0))
                     ELSE IF inputQBit = outputBit
                     THEN Becomes(sb, Threw("CLOR", <<>>))
                     ELSE Becomes(DoCNOT(sb, inputQBit, outputBit),
                                  Did("CLOR", <<>>, 0))

\* if (!(!inputClassicalBit && inputQBit == outputBit)) {
\*     SetBit(outputBit, inputClassicalBit); CNOT(inputQBit, outputBit); }
\* CNOT throws when inputQBit == outputBit, after SetBit has acted.
CLXOR(inputQBit, inputClassicalBit, outputBit) ==
    /\ Operable
    /\ IF ~inputClassicalBit /\ inputQBit = outputBit
       THEN Becomes(This, Did("CLXOR", <<>>, 0))
       ELSE \E result \in BOOLEAN : \E phase \in Phases :
              /\ MCan(This, outputBit, result)
              /\ LET sb == DoSetBit(This, outputBit, inputClassicalBit, result, phase)
                 IN  IF inputQBit = outputBit
                     THEN Becomes(sb, Threw("CLXOR", <<>>))
                     ELSE Becomes(DoCNOT(sb, inputQBit, outputBit),
                                  Did("CLXOR", <<>>, 0))

\* CoherentUnit(qBitCount, initState) with up to MaxQubits + 1 qubits, so
\* that CCNOT has three distinct bits to act on
InitErr ==
    /\ PfIdle
    /\ OclIdle
    /\ \E n \in 1 .. (MaxQubits + 1) : \E perm \in 0 .. (Pow2(n) - 1) : \E phase \in Phases :
          /\ qubitCount = n
          /\ maxQPower = Shl(1, n)
          /\ stateVec = BasisVec(n, perm, phase)
          /\ scaleSq = ROne
          /\ runningNormSq = ROne
    /\ op = Did("ctor", <<>>, 0)
    /\ other = NoReg

NextErr ==
    \/ \E q \in Qubits : X(q)
    \/ \E c \in Qubits : \E t \in Qubits : CNOT(c, t)
    \/ \E c \in Qubits : \E t \in Qubits : AntiCNOT(c, t)
    \/ \E c1 \in Qubits : \E c2 \in Qubits : \E t \in Qubits : CCNOT(c1, c2, t)
    \/ \E c1 \in Qubits : \E c2 \in Qubits : \E t \in Qubits : AntiCCNOT(c1, c2, t)
    \/ \E q \in Qubits : \E v \in BOOLEAN : SetBit(q, v)
    \/ \E i \in Qubits : \E c \in BOOLEAN : \E o \in Qubits : CLAND(i, c, o)
    \/ \E i \in Qubits : \E c \in BOOLEAN : \E o \in Qubits : CLOR(i, c, o)
    \/ \E i \in Qubits : \E c \in BOOLEAN : \E o \in Qubits : CLXOR(i, c, o)

SpecErr == InitErr /\ [][NextErr]_vars

\* C5: a step in which an operation fails with std::invalid_argument leaves
\* the amplitude vector, qubitCount and runningNorm as they were before the
\* call.
C5_FailureLeavesRegister ==
    [][op'.threw => /\ stateVec' = stateVec
                    /\ scaleSq' = scaleSq
                    /\ qubitCount' = qubitCount
                    /\ maxQPower' = maxQPower
                    /\ runningNormSq' = runningNormSq]_vars

\* the failing composite: CLXOR with the classical bit set and the input
\* qubit also the output qubit has thrown
C5_ClxorThrew ==
    /\ op.kind = "CLXOR"
    /\ op.threw

\* ------------------------------------------------------------------------
\* The header-only Register class (src/qrack.hpp)
\* ------------------------------------------------------------------------
RECURSIVE RegApply2x2Loop(_, _, _, _, _)
\* the par_for body of Register::Apply2x2 for lcv = 0 .. maxQPower - 1
RegApply2x2Loop(sv, mtrx, qPower, maxI, lcv) ==
    LET Y0 == sv[lcv + qPower]
        q1 == sv[lcv]
        n0 == CAdd(CMul(mtrx[1], Y0), CMul(mtrx[2], q1))
        n1 == CAdd(CMul(mtrx[3], Y0), CMul(mtrx[4], q1))
    IN  IF lcv >= maxI THEN sv
        ELSE IF BitAnd(lcv, qPower) = 0
        THEN RegApply2x2Loop([sv EXCEPT ![lcv + qPower] = n0, ![lcv] = n1],
                             mtrx, qPower, maxI, lcv + 1)
        ELSE RegApply2x2Loop(sv, mtrx, qPower, maxI, lcv + 1)

\* Register::Apply2x2: nrm = 1.0 / runningNorm, then UpdateRunningNorm()
RegApply2x2(r, qubitIndex, mtrx) ==
    UpdateRunningNorm(
        [r EXCEPT !.stateVec = RegApply2x2Loop(r.stateVec, mtrx.m, Shl(1, qubitIndex),
                                               r.maxQPower, 0),
                  !.scaleSq = RDiv(RMul(r.scaleSq, mtrx.s), r.runningNormSq)])

\* Register::M sums zeroChance under the condition  lcv & qPower == 0, which
\* C++ parses as  lcv & (qPower == 0)
RegZeroChance(r, q) ==
    RMul(r.scaleSq,
         <<SumOver([lcv \in DOMAIN r.stateVec |->
                      IF BitAnd(lcv, IF Shl(1, q) = 0 THEN 1 ELSE 0) # 0
                      THEN normSqrd(r.stateVec[lcv]) ELSE 0],
                   0, VecLen(r.stateVec)), 1>>)

\* result = (prob >= zeroChance) with prob in [0, 1)
RegMCan(r, q, result) ==
    IF result THEN RLess(RegZeroChance(Normalized(r), q), ROne)
    ELSE RLess(RZero, RegZeroChance(Normalized(r), q))

DoRegM(r, q, result, phase) ==
    LET n == Normalized(r)
        zeroChance == RegZeroChance(n, q)
        nrmlzrSq == IF result
                    THEN (IF RLess(zeroChance, ROne) THEN RSub(ROne, zeroChance) ELSE ROne)
                    ELSE (IF RLess(RZero, zeroChance) THEN zeroChance ELSE ROne)
        sv == [lcv \in DOMAIN n.stateVec |->
                 IF (BitAnd(lcv, Shl(1, q)) = 0) = result THEN CZero
                 ELSE CMul(phase, n.stateVec[lcv])]
    IN  UpdateRunningNorm([n EXCEPT !.stateVec = sv,
                                    !.scaleSq = RDiv(n.scaleSq, nrmlzrSq)])

RegX(q) ==
    /\ Operable
    /\ Becomes(RegApply2x2(This, q, pauliX), Did("RegX", <<>>, 0))

RegH(q) ==
    /\ Operable
    /\ Becomes(RegApply2x2(Normalized(This), q, had), Did("RegH", <<>>, 0))

\* Register::M has no return statement: the value the caller reads is
\* whatever the build leaves in the return register.
RegM(q) ==
    /\ Operable
    /\ \E result \in BOOLEAN : \E phase \in Phases : \E returned \in BOOLEAN :
          /\ RegMCan(This, q, result)
          /\ Becomes(DoRegM(This, q, result, phase), Did("M", <<q>>, returned))

NextReg ==
    \/ \E q \in Qubits : RegX(q)
    \/ \E q \in Qubits : RegH(q)
    \/ \E q \in Qubits : RegM(q)

\* Register(qBitCount, initState) builds the same object as the CoherentUnit
\* constructor does
SpecReg == Init /\ [][NextReg]_vars

\* C6: when M(q) is called on a register of non-zero norm and returns r, the
\* probability of bit q being r was greater than 0 before the call, and after
\* it every amplitude whose bit q differs from r is zero and some amplitude
\* whose bit q equals r is not.
C6_MeasuredOutcome ==
    [][(op'.kind = "M" /\ NormSq(This) # RZero) =>
          /\ IF op'.ret THEN RLess(RZero, OneChance(This, op'.args[1]))
                        ELSE RLess(RZero, ZeroChance(This, op'.args[1]))
          /\ \A i \in DOMAIN stateVec' :
                BitSet(i, op'.args[1]) # op'.ret => stateVec'[i] = CZero
          /\ \E i \in DOMAIN stateVec' :
                BitSet(i, op'.args[1]) = op'.ret /\ stateVec'[i] # CZero]_vars

\* a measurement has left the all-zero vector behind
C6_AllZero ==
    /\ op.kind = "M"
    /\ \A i \in DOMAIN stateVec : stateVec[i] = CZero

\* ------------------------------------------------------------------------
\* Scatter kernels rol, ror, add, sub and their host methods
\* ------------------------------------------------------------------------
\* new Complex16[maxQPower]: the sibling buffer a scatter kernel writes into
FreshBuffer(maxI) == [i \in 0 .. (maxI - 1) |-> CZero]

\* the cells one output index can end up holding: the source of any of the
\* work-items that write it (they race when there are several), or what the
\* fresh buffer held when none does
Cands(sv, tf, j, maxI) ==
    IF \E lcv \in 0 .. (maxI - 1) : tf[lcv] = j
    THEN {sv[lcv] : lcv \in {l \in 0 .. (maxI - 1) : tf[l] = j}}
    ELSE {FreshBuffer(maxI)[j]}

RECURSIVE ScatterFrom(_, _, _, _)
ScatterFrom(sv, tf, j, maxI) ==
    IF j >= maxI THEN {<<>>}
    ELSE {<<a>> \o rest : a \in Cands(sv, tf, j, maxI), rest \in ScatterFrom(sv, tf, j + 1, maxI)}

\* for (lcv = ID; lcv < maxI; lcv += Nthreads) nStateVec[tf[lcv]] = stateVec[lcv];
\* over all work-items: every array the kernel can leave in nStateVec.  A
\* write at an index >= maxI lands outside the buffer and is not part of it.
Scatter(sv, tf, maxI) ==
    {[i \in 0 .. (maxI - 1) |-> q[i + 1]] : q \in ScatterFrom(sv, tf, 0, maxI)}

WritesOutside(tf, maxI) == \E lcv \in 0 .. (maxI - 1) : tf[lcv] >= maxI

RECURSIVE RegMask(_, _, _)
\* for (i = 0; i < length; i++) regMask += 1<<(start + i);
RegMask(start, length, i) ==
    IF i >= length THEN 0 ELSE Shl(1, start + i) + RegMask(start, length, i + 1)

\* bciArgs of ROL and ROR
RotArgs(r, shift, start, length) ==
    [maxI |-> r.maxQPower,
     regMask |-> RegMask(start, length, 0),
     otherMask |-> (Shl(1, r.qubitCount) - 1) - RegMask(start, length, 0),
     lengthMask |-> Shl(1, length) - 1,
     start |-> start, shift |-> shift, length |-> length]

\* kernel rol: the output index of work-item index lcv
rol(lcv, a) ==
    LET otherRes == BitAnd(lcv, a.otherMask)
        regInt == Shr(BitAnd(lcv, a.regMask), a.start)
        outInt == BitOr(Shr(regInt, a.length - a.shift),
                        BitAnd(Shl(regInt, a.shift), a.lengthMask))
    IN  Shl(outInt, a.start) + otherRes

\* kernel ror: the left-shifted part is not masked
ror(lcv, a) ==
    LET otherRes == BitAnd(lcv, a.otherMask)
        regInt == Shr(BitAnd(lcv, a.regMask), a.start)
        outInt == BitOr(BitAnd(Shr(regInt, a.shift), a.lengthMask),
                        Shl(regInt, a.length - a.shift))
    IN  Shl(outInt, a.start) + otherRes

RolTargets(r, shift, start, length) ==
    [lcv \in 0 .. (r.maxQPower - 1) |-> rol(lcv, RotArgs(r, shift, start, length))]

RorTargets(r, shift, start, length) ==
    [lcv \in 0 .. (r.maxQPower - 1) |-> ror(lcv, RotArgs(r, shift, start, length))]

\* CoherentUnit::ROL / ROR: every register the call can leave behind
DoROL(r, shift, start, length) ==
    {[r EXCEPT !.stateVec = nsv] :
        nsv \in Scatter(r.stateVec, RolTargets(r, shift, start, length), r.maxQPower)}

DoROR(r, shift, start, length) ==
    {[r EXCEPT !.stateVec = nsv] :
        nsv \in Scatter(r.stateVec, RorTargets(r, shift, start, length), r.maxQPower)}

\* bciArgs of ADD and SUB
AddArgs(r, inOutStart, inStart, length) ==
    [maxI |-> r.maxQPower,
     inOutMask |-> RegMask(inOutStart, length, 0),
     inMask |-> RegMask(inStart, length, 0),
     otherMask |-> (Shl(1, r.qubitCount) - 1)
                      - (RegMask(inOutStart, length, 0) + RegMask(inStart, length, 0)),
     lengthPower |-> Shl(1, length),
     inOutStart |-> inOutStart, inStart |-> inStart]

addNoMask(lcv, a) ==
    LET otherRes == BitAnd(lcv, a.otherMask)
        inOutInt == Shr(BitAnd(lcv, a.inOutMask), a.inOutStart)
        inRes == BitAnd(lcv, a.inMask)
        inInt == Shr(inRes, a.inStart)
    IN  Shl(inOutInt + inInt, a.inOutStart) + otherRes + inRes

\* kernel add
add(lcv, a) ==
    LET otherRes == BitAnd(lcv, a.otherMask)
        inOutInt == Shr(BitAnd(lcv, a.inOutMask), a.inOutStart)
        inRes == BitAnd(lcv, a.inMask)
        inInt == Shr(inRes, a.inStart)
    IN  Shl(BitAnd(inOutInt + inInt, a.lengthPower - 1), a.inOutStart) + otherRes + inRes

\* kernel sub; inOutInt - inInt + lengthPower is at least 1, so the unsigned
\* 64-bit arithmetic gives the mathematical value
sub(lcv, a) ==
    LET otherRes == BitAnd(lcv, a.otherMask)
        inOutInt == Shr(BitAnd(lcv, a.inOutMask), a.inOutStart)
        inRes == BitAnd(lcv, a.inMask)
        inInt == Shr(inRes, a.inStart)
    IN  Shl(BitAnd((inOutInt - inInt) + a.lengthPower, a.lengthPower - 1), a.inOutStart)
           + otherRes + inRes

AddTargets(r, inOutStart, inStart, length) ==
    [lcv \in 0 .. (r.maxQPower - 1) |-> add(lcv, AddArgs(r, inOutStart, inStart, length))]

SubTargets(r, inOutStart, inStart, length) ==
    [lcv \in 0 .. (r.maxQPower - 1) |-> sub(lcv, AddArgs(r, inOutStart, inStart, length))]

DoADD(r, inOutStart, inStart, length) ==
    {[r EXCEPT !.stateVec = nsv] :
        nsv \in Scatter(r.stateVec, AddTargets(r, inOutStart, inStart, length), r.maxQPower)}

DoSUB(r, inOutStart, inStart, length) ==
    {[r EXCEPT !.stateVec = nsv] :
        nsv \in Scatter(r.stateVec, SubTargets(r, inOutStart, inStart, length), r.maxQPower)}

\* ------------------------------------------------------------------------
\* reverse, rotate, INC and DEC
\* ------------------------------------------------------------------------
Swapped(sv, a, b) == [sv EXCEPT ![a] = sv[b], ![b] = sv[a]]

RECURSIVE reverse(_, _, _, _)
\* while ((first < last) && (first < (last - stride))) {
\*     last -= stride; std::iter_swap(first, last); first += stride; }
reverse(sv, first, last, stride) ==
    IF first < last /\ first < last - stride
    THEN reverse(Swapped(sv, first, last - stride), first + stride, last - stride, stride)
    ELSE sv

rotateTwoReversals(sv, first, middle, last, stride) ==
    reverse(reverse(sv, first, middle, stride), middle, last, stride)

\* reverse(first, middle); reverse(middle, last); reverse(first, last);
rotate(sv, first, middle, last, stride) ==
    reverse(reverse(reverse(sv, first, middle, stride), middle, last, stride),
            first, last, stride)

\* par_for_reg: the arguments (k, startPower, endPower, lengthPower) of the
\* body invocations, one for every combination of the bits above and below
\* the register; the body's window is [k, k + 2^(start + length))
ParForRegCalls(start, length, qBitCount) ==
    LET startPower == Shl(1, start)
        lengthPower == Shl(1, length)
        window == Shl(1, start + length)
        groups == Shl(1, qBitCount - (start + length))
    IN  [n \in 1 .. (groups * startPower) |->
            [k |-> ((n - 1) \div startPower) * window + ((n - 1) % startPower),
             startPower |-> startPower,
             endPower |-> ((n - 1) \div startPower) * window + ((n - 1) % startPower) + window,
             lengthPower |-> lengthPower]]

\* the body INC hands to par_for_reg
IncBody(sv, c, toAdd) ==
    rotate(sv, c.k, ((c.lengthPower - toAdd) * c.startPower) + c.k, c.endPower, c.startPower)

\* the body DEC hands to par_for_reg
DecBody(sv, c, toSub) ==
    rotate(sv, c.k, (toSub * c.startPower) + c.k, c.endPower, c.startPower)

RECURSIVE IncBodies(_, _, _, _)
IncBodies(sv, cs, n, toAdd) ==
    IF n > Len(cs) THEN sv
    ELSE IncBodies(IncBody(sv, cs[n], toAdd), cs, n + 1, toAdd)

RECURSIVE DecBodies(_, _, _, _)
DecBodies(sv, cs, n, toSub) ==
    IF n > Len(cs) THEN sv
    ELSE DecBodies(DecBody(sv, cs[n], toSub), cs, n + 1, toSub)

DoINC(r, toAdd, start, length) ==
    [r EXCEPT !.stateVec =
        IncBodies(r.stateVec, ParForRegCalls(start, length, r.qubitCount), 1, toAdd)]

DoDEC(r, toSub, start, length) ==
    [r EXCEPT !.stateVec =
        DecBodies(r.stateVec, ParForRegCalls(start, length, r.qubitCount), 1, toSub)]

\* ------------------------------------------------------------------------
\* Permutation operations, each explored on a register that was just set up
\* ------------------------------------------------------------------------
\* a vector whose amplitudes are pairwise different, so that every move of
\* an amplitude shows
RampVec(n) == [i \in 0 .. (Pow2(n) - 1) |-> <<i + 1, 1>>]

\* CoherentUnit(qBitCount, initState), or SetQuantumState with a normalized
\* vector of pairwise different amplitudes
InitPerm ==
    /\ PfIdle
    /\ OclIdle
    /\ \E n \in 1 .. (MaxQubits + 1) :
          /\ qubitCount = n
          /\ maxQPower = Shl(1, n)
          /\ \/ \E perm \in 0 .. (Pow2(n) - 1) : \E phase \in Phases :
                   /\ stateVec = BasisVec(n, perm, phase)
                   /\ scaleSq = ROne
             \/ /\ stateVec = RampVec(n)
                /\ scaleSq = RDiv(ROne, NormSq(MkReg(n, Pow2(n), RampVec(n), ROne, ROne)))
          /\ runningNormSq = ROne
    /\ op = Did("ctor", <<>>, 0)
    /\ other = NoReg

JustSetUp == op.kind = "ctor"

Windows == {w \in (0 .. qubitCount) \X (1 .. qubitCount) : w[1] + w[2] <= qubitCount}

ROL(shift, start, length) ==
    /\ shift < length
    /\ \E r \in DoROL(This, shift, start, length) :
          Becomes(r, [Did("ROL", <<shift, start, length>>, 0) EXCEPT
                         !.oob = WritesOutside(RolTargets(This, shift, start, length), maxQPower)])

ROR(shift, start, length) ==
    /\ shift < length
    /\ \E r \in DoROR(This, shift, start, length) :
          Becomes(r, [Did("ROR", <<shift, start, length>>, 0) EXCEPT
                         !.oob = WritesOutside(RorTargets(This, shift, start, length), maxQPower)])

Disjoint(inOutStart, inStart, length) ==
    inOutStart + length <= inStart \/ inStart + length <= inOutStart

ADD(inOutStart, inStart, length) ==
    /\ Disjoint(inOutStart, inStart, length)
    /\ inStart + length <= qubitCount
    /\ \E r \in DoADD(This, inOutStart, inStart, length) :
          Becomes(r, [Did("ADD", <<inOutStart, inStart, length>>, 0) EXCEPT
                         !.oob = WritesOutside(AddTargets(This, inOutStart, inStart, length), maxQPower)])

SUB(inOutStart, inStart, length) ==
    /\ Disjoint(inOutStart, inStart, length)
    /\ inStart + length <= qubitCount
    /\ \E r \in DoSUB(This, inOutStart, inStart, length) :
          Becomes(r, [Did("SUB", <<inOutStart, inStart, length>>, 0) EXCEPT
                         !.oob = WritesOutside(SubTargets(This, inOutStart, inStart, length), maxQPower)])

INC(toAdd, start, length) ==
    /\ toAdd < Shl(1, length)
    /\ Becomes(DoINC(This, toAdd, start, length), Did("INC", <<toAdd, start, length>>, 0))

DEC(toSub, start, length) ==
    /\ toSub < Shl(1, length)
    /\ Becomes(DoDEC(This, toSub, start, length), Did("DEC", <<toSub, start, length>>, 0))

NextPerm ==
    \/ \E q \in Qubits : JustSetUp /\ X(q)
    \/ \E c \in Qubits : \E t \in Qubits : JustSetUp /\ CNOT(c, t)
    \/ \E w \in Windows : \E shift \in 0 .. (qubitCount - 1) : JustSetUp /\ ROL(shift, w[1], w[2])
    \/ \E w \in Windows : \E shift \in 0 .. (qubitCount - 1) : JustSetUp /\ ROR(shift, w[1], w[2])
    \/ \E w \in Windows : \E inStart \in Qubits : JustSetUp /\ ADD(w[1], inStart, w[2])
    \/ \E w \in Windows : \E inStart \in Qubits : JustSetUp /\ SUB(w[1], inStart, w[2])
    \/ \E w \in Windows : \E v \in 0 .. (maxQPower - 1) : JustSetUp /\ INC(v, w[1], w[2])
    \/ \E w \in Windows : \E v \in 0 .. (maxQPower - 1) : JustSetUp /\ DEC(v, w[1], w[2])

SpecPerm == InitPerm /\ [][NextPerm]_vars

\* ------------------------------------------------------------------------
\* What the permutation operations are meant to do, index by index
\* ------------------------------------------------------------------------
ThisNext == MkReg(qubitCount', maxQPower', stateVec', scaleSq', runningNormSq')

\* the value held by the bits [start, start + length) of index i
WindowOf(i, start, length) == (i \div Pow2(start)) % Pow2(length)

\* index i with the bits [start, start + length) replaced by x
WithWindow(i, start, length, x) ==
    i - WindowOf(i, start, length) * Pow2(start) + x * Pow2(start)

FlipBit(i, t) == IF (i \div Pow2(t)) % 2 = 1 THEN i - Pow2(t) ELSE i + Pow2(t)

\* rotation of a length-bit value x to the left by shift bits
RotLeft(x, shift, length) ==
    ((x * Pow2(shift)) % Pow2(length)) + (x \div Pow2(length - shift))

RotRight(x, shift, length) ==
    (x \div Pow2(shift)) + ((x % Pow2(shift)) * Pow2(length - shift))

IsBijection(tf, maxI) == {tf[lcv] : lcv \in 0 .. (maxI - 1)} = 0 .. (maxI - 1)

\* C7: one CNOT(c, t) with c # t exchanges the amplitudes of every pair of
\* indices that differ only in bit t and have bit c set, and leaves every
\* amplitude with bit c clear in place; a second CNOT(c, t), or a second X(q)
\* after an X(q), puts every amplitude back at its original index.
C7_CnotTwiceXTwice ==
    [][/\ (op'.kind = "CNOT" /\ ~op'.threw) =>
            /\ \A i \in DOMAIN stateVec :
                  stateVec'[i] = IF BitSet(i, op'.args[1])
                                 THEN stateVec[FlipBit(i, op'.args[2])]
                                 ELSE stateVec[i]
            /\ Canon(DoCNOT(ThisNext, op'.args[1], op'.args[2])).stateVec = stateVec
       /\ op'.kind = "X" =>
            /\ \A i \in DOMAIN stateVec : stateVec'[i] = stateVec[FlipBit(i, op'.args[1])]
            /\ Canon(DoX(ThisNext, op'.args[1])).stateVec = stateVec]_vars

\* a CNOT has moved amplitudes of a three-qubit register of pairwise
\* different amplitudes
C7_CnotMoved ==
    /\ op.kind = "CNOT"
    /\ ~op.threw
    /\ qubitCount = 3
    /\ stateVec # RampVec(3)
    /\ \A i \in DOMAIN stateVec : \E j \in DOMAIN stateVec : stateVec[i] = RampVec(3)[j]

C10_RolRor ==
    [][/\ op'.kind = "ROL" =>
            /\ \A i \in DOMAIN stateVec :
                  stateVec'[WithWindow(i, op'.args[2], op'.args[3],
                               RotLeft(WindowOf(i, op'.args[2], op'.args[3]),
                                       op'.args[1], op'.args[3]))]
                    = stateVec[i]
            /\ IsBijection(RolTargets(This, op'.args[1], op'.args[2], op'.args[3]), maxQPower)
            /\ {Canon(r) : r \in DoROR(ThisNext, op'.args[1], op'.args[2], op'.args[3])} = {This}
       /\ op'.kind = "ROR" =>
            /\ \A i \in DOMAIN stateVec :
                  stateVec'[WithWindow(i, op'.args[2], op'.args[3],
                               RotRight(WindowOf(i, op'.args[2], op'.args[3]),
                                        op'.args[1], op'.args[3]))]
                    = stateVec[i]
            /\ IsBijection(RorTargets(This, op'.args[1], op'.args[2], op'.args[3]), maxQPower)]_vars

\* a ROR has written outside the amplitude buffer
C10_RorWroteOutside ==
    /\ op.kind = "ROR"
    /\ op.oob

\* ------------------------------------------------------------------------
\* Construction, Cohere, Decohere and Dispose
\* ------------------------------------------------------------------------
\* stands for INT_MIN converted to bitCapInt, 2^64 - 2^31
Huge == -1

\* The values of the expression  1 << n  (an int shift) once stored in a
\* bitCapInt.  A count of IntBits or more is undefined: the builds either
\* use the count modulo IntBits or shift everything out.
ShiftedOne(n) ==
    IF n < IntBits - 1 THEN {Pow2(n)}
    ELSE IF n = IntBits - 1 THEN {Huge}
    ELSE {0} \cup (IF n % IntBits = IntBits - 1 THEN {Huge} ELSE {Pow2(n % IntBits)})

RECURSIVE IsPow2Of(_, _)
\* m = 2^n, without forming 2^n
IsPow2Of(m, n) ==
    IF n = 0 THEN m = 1
    ELSE m > 0 /\ m % 2 = 0 /\ IsPow2Of(m \div 2, n - 1)

IsSquare(n) == \E k \in 0 .. n : k * k = n
ISqrt(n) == CHOOSE k \in 0 .. n : k * k = n

\* The object takes the fields of r, the second object those of o2.
BecomesBoth(r, o2, o) ==
    LET c == Canon(r)
    IN  /\ qubitCount' = c.qubitCount
        /\ maxQPower' = c.maxQPower
        /\ stateVec' = c.stateVec
        /\ scaleSq' = c.scaleSq
        /\ runningNormSq' = c.runningNormSq
        /\ op' = o
        /\ other' = Canon(o2)
        /\ UNCHANGED <<pfVars, oclVars>>

\* sqrt(norm(a) * norm(b)) is formed exactly when every product of two
\* mantissa norms is a square
CohereExact(r, t) ==
    \A i \in DOMAIN r.stateVec : \A j \in DOMAIN t.stateVec :
        IsSquare(normSqrd(r.stateVec[i]) * normSqrd(t.stateVec[j]))

\* for (i = lo; i < hi; i++) mask += (1<<i);
BitsMask(lo, hi) == RegMask(lo, hi - lo, 0)

\* Cohere with the argument's qubits placed below the register's own
DoCohereArgumentLow(r, t, nMaxQPower, phaseFac) ==
    LET n == Normalized(r)
        tn == Normalized(t)
        nQubitCount == n.qubitCount + tn.qubitCount
        startMask == BitsMask(0, tn.qubitCount)
        endMask == BitsMask(tn.qubitCount, nQubitCount)
    IN  UpdateRunningNorm(
            MkReg(nQubitCount, nMaxQPower,
                  [i \in 0 .. (nMaxQPower - 1) |->
                      CMul(phaseFac,
                           <<ISqrt(normSqrd(tn.stateVec[BitAnd(i, startMask)])
                                   * normSqrd(n.stateVec[Shr(BitAnd(i, endMask), tn.qubitCount)])),
                             0>>)],
                  RMul(n.scaleSq, tn.scaleSq), ROne))

\* Cohere after both NormalizeState calls, with nMaxQPower and phaseFac chosen
DoCohere(r, t, nMaxQPower, phaseFac) ==
    LET n == Normalized(r)
        tn == Normalized(t)
        nQubitCount == n.qubitCount + tn.qubitCount
        startMask == BitsMask(0, n.qubitCount)
        endMask == BitsMask(n.qubitCount, nQubitCount)
    IN  UpdateRunningNorm(
            MkReg(nQubitCount, nMaxQPower,
                  [i \in 0 .. (nMaxQPower - 1) |->
                      CMul(phaseFac,
                           <<ISqrt(normSqrd(n.stateVec[BitAnd(i, startMask)])
                                   * normSqrd(tn.stateVec[Shr(BitAnd(i, endMask), n.qubitCount)])),
                             0>>)],
                  RMul(n.scaleSq, tn.scaleSq), ROne))

\* remainderStateProb[(i & startMask) + ((i & endMask)>>length)] += norm(stateVec[i]),
\* in units of the common factor
RemainderProb(r, start, length) ==
    [j \in 0 .. (Shl(1, r.qubitCount - length) - 1) |->
        SumOver([i \in DOMAIN r.stateVec |->
                    IF BitAnd(i, BitsMask(0, start))
                         + Shr(BitAnd(i, BitsMask(start + length, r.qubitCount)), length) = j
                    THEN normSqrd(r.stateVec[i]) ELSE 0],
                0, VecLen(r.stateVec))]

\* partStateProb[(i & mask)>>start] += norm(stateVec[i])
PartProb(r, start, length) ==
    [j \in 0 .. (Shl(1, length) - 1) |->
        SumOver([i \in DOMAIN r.stateVec |->
                    IF Shr(BitAnd(i, BitsMask(start, start + length)), start) = j
                    THEN normSqrd(r.stateVec[i]) ELSE 0],
                0, VecLen(r.stateVec))]

RECURSIVE GcdOfInts(_, _, _)
GcdOfInts(f, lo, hi) == IF lo >= hi THEN 0 ELSE GCD(f[lo], GcdOfInts(f, lo + 1, hi))

\* sqrt(prob[i] / totProb) is formed exactly when the probabilities are a
\* common factor times squares
RootsExact(prob) ==
    \A j \in DOMAIN prob :
        IF prob[j] = 0 THEN TRUE
        ELSE IsSquare(prob[j] \div GcdOfInts(prob, 0, VecLen(prob)))

\* if (totProb == 0.0) v[0] = phaseFac;
\* else v[i] = sqrt(prob[i] / totProb) * phaseFac  for every i
\* written over the array old, returned with the square of the common factor
FromProb(prob, phaseFac, old) ==
    LET tot == SumOver(prob, 0, VecLen(prob))
        g == GcdOfInts(prob, 0, VecLen(prob))
    IN  IF tot = 0
        THEN [sv |-> [old EXCEPT ![0] = phaseFac], sc |-> ROne]
        ELSE [sv |-> [i \in DOMAIN old |->
                        IF i \in DOMAIN prob
                        THEN CMul(phaseFac, <<ISqrt(prob[i] \div g), 0>>) ELSE old[i]],
              sc |-> Rat(g, tot)]

\* Dispose with phaseFac chosen
DoDispose(r, start, length, phaseFac) ==
    LET n == Normalized(r)
        remainderPower == Shl(1, n.qubitCount - length)
        made == FromProb(RemainderProb(n, start, length), phaseFac,
                         FreshBuffer(remainderPower))
    IN  UpdateRunningNorm(
            MkReg(n.qubitCount - length, Shl(1, n.qubitCount - length), made.sv, made.sc, ROne))

\* what Decohere leaves in destination: its array overwritten from
\* partStateProb, its other fields kept, then destination.UpdateRunningNorm()
DoDecohereDest(r, start, length, dest, phaseFac) ==
    LET made == FromProb(PartProb(Normalized(r), start, length), phaseFac, dest.stateVec)
    IN  UpdateRunningNorm([dest EXCEPT !.stateVec = made.sv, !.scaleSq = made.sc])

\* Swap: Apply2x2(qPowers[2], qPowers[1], pauliX, 2, qPowersSorted, false, false)
DoSwap(r, qubitIndex1, qubitIndex2) ==
    IF qubitIndex1 = qubitIndex2 THEN r
    ELSE Apply2x2(r, Shl(1, qubitIndex2), Shl(1, qubitIndex1), pauliX, 2,
                  SortedPowers(qubitIndex1, qubitIndex2), FALSE, FALSE)

\* CoherentUnit(qBitCount, initState) with qBitCount small, initState in range
NewUnit(qBitCount, initState, phase) ==
    MkReg(qBitCount, Shl(1, qBitCount), BasisVec(qBitCount, initState, phase), ROne, ROne)

\* the ancilla branch of XOR up to the Swap:
\* extraBit(1, 0); Cohere(extraBit); CNOT(inputBit1, qubitCount - 1);
\* CNOT(inputBit2, qubitCount - 1); Swap(qubitCount - 1, outputBit)
\* Cohere takes norms and the Dispose that follows takes norms again, so the
\* phase of extraBit and the phase Cohere draws do not reach the result.
XorWithAncilla(r, inputBit1, inputBit2, outputBit) ==
    LET grown == DoCohere(r, NewUnit(1, 0, COne), Shl(1, r.qubitCount + 1), COne)
        anc == grown.qubitCount - 1
    IN  DoSwap(DoCNOT(DoCNOT(grown, inputBit1, anc), inputBit2, anc), anc, outputBit)

\* the counts the constructors are given: small ones, and those around the
\* widths of int and of bitCapInt
CtorCounts ==
    (1 .. MaxQubits)
        \cup {IntBits - 1, IntBits, IntBits + 1, NativeBits - 1, NativeBits, NativeBits + 1}

\* A constructed object: CoherentUnit(qBitCount) when ~withState (it throws
\* above NativeBits), CoherentUnit(qBitCount, initState) otherwise.  Huge
\* makes new[] throw, so no object exists.  With maxQPower = 0 the array is
\* empty and the store of the phase lands outside it.
InitLife ==
    /\ PfIdle
    /\ OclIdle
    /\ \E n \in CtorCounts : \E withState \in BOOLEAN : \E mqp \in ShiftedOne(n) \ {Huge} :
       \E phase \in Phases :
       \E initState \in 0 .. (IF withState /\ mqp > 0 THEN mqp - 1 ELSE 0) :
          /\ withState \/ n <= NativeBits
          /\ qubitCount = n
          /\ maxQPower = mqp
          /\ stateVec = [i \in 0 .. (mqp - 1) |-> IF i = initState THEN phase ELSE CZero]
          /\ scaleSq = ROne
          /\ runningNormSq = ROne
          /\ op = [Did("ctor", <<>>, 0) EXCEPT !.oob = (mqp = 0)]
    /\ other = NoReg

\* the array has the length the loops of every operation run over
WellFormed ==
    /\ VecLen(stateVec) = maxQPower
    /\ IsPow2Of(maxQPower, qubitCount)
    /\ Operable

\* the units handed to Cohere: a new unit, the same after H(0), and after
\* H(0) and an M(0) that returned true
PreparedUnits ==
    LET fresh == {NewUnit(k, perm, ph) : k \in 1 .. MaxQubits, perm \in 0 .. 1, ph \in Phases}
    IN  fresh \cup {Canon(DoH(u, 0)) : u \in fresh}
              \cup {Canon(DoM(DoH(u, 0), 0, TRUE, COne)) : u \in fresh}

\* toCopy is one of the prepared units; it is recorded as it was handed over
CohereWithin(most) ==
    /\ WellFormed
    /\ \E t \in PreparedUnits :
       \E phaseFac \in Phases :
          /\ t.runningNormSq # RZero
          /\ qubitCount + t.qubitCount <= most
          /\ CohereExact(Normalized(This), Normalized(t))
          /\ BecomesBoth(DoCohere(This, t, Shl(1, qubitCount + t.qubitCount), phaseFac),
                         Normalized(t), Did("Cohere", <<t>>, 0))

Cohere == CohereWithin(MaxQubits)

Dispose(start, length) ==
    /\ WellFormed
    /\ start + length <= qubitCount
    /\ RootsExact(RemainderProb(Normalized(This), start, length))
    /\ \E phaseFac \in Phases :
          Becomes(DoDispose(This, start, length, phaseFac),
                  Did("Dispose", <<start, length>>, 0))

\* destination is a new CoherentUnit(length); its phase is overwritten
Decohere(start, length) ==
    /\ WellFormed
    /\ start + length <= qubitCount
    /\ RootsExact(RemainderProb(Normalized(This), start, length))
    /\ RootsExact(PartProb(Normalized(This), start, length))
    /\ \E ph1 \in Phases : \E ph2 \in Phases :
          BecomesBoth(DoDispose(This, start, length, ph2),
                      DoDecohereDest(This, start, length, NewUnit(length, 0, COne), ph1),
                      Did("Decohere", <<start, length>>, 0))

\* SetBit(q, value) with every outcome of M and every phase M can draw.  A
\* register whose runningNorm is zero is left as it is: NormalizeState would
\* make its amplitudes NaN, which are not represented.
SetBitAll(r, q, value) ==
    IF r.runningNormSq = RZero THEN {r}
    ELSE {DoSetBit(r, q, value, x[1], x[2]) :
            x \in {y \in BOOLEAN \X Phases : MCan(r, q, y[1])}}

\* the extra bit of a gate whose output is one of its inputs: Cohere with
\* CoherentUnit extraBit(1, initState), phase factors taken as 1
WithExtraBit(r, initState) ==
    DoCohere(r, NewUnit(1, initState, COne), Shl(1, r.qubitCount + 1), COne)

\* Dispose(qubitCount - 1, 1) of the register grown from r, for every phase
\* it can draw
ExtraBitDisposed(r, grown) ==
    IF /\ CohereExact(Normalized(r), NewUnit(1, 0, COne))
       /\ grown.runningNormSq # RZero
       /\ RootsExact(RemainderProb(Normalized(grown), grown.qubitCount - 1, 1))
    THEN {DoDispose(grown, grown.qubitCount - 1, 1, ph) : ph \in Phases}
    ELSE {}

\* the registers AND can leave
AndAll(r, inputBit1, inputBit2, outputBit) ==
    IF inputBit1 = inputBit2 /\ inputBit2 = outputBit THEN {r}
    ELSE IF inputBit1 = outputBit \/ inputBit2 = outputBit
    THEN LET grown == WithExtraBit(r, 0)
             anc == grown.qubitCount - 1
         IN  ExtraBitDisposed(r, DoSwap(DoCCNOT(grown, inputBit1, inputBit2, anc), anc, outputBit))
    ELSE {IF inputBit1 = inputBit2 THEN DoCNOT(z, inputBit1, outputBit)
          ELSE DoCCNOT(z, inputBit1, inputBit2, outputBit) :
             z \in SetBitAll(r, outputBit, FALSE)}

\* OR with the extra bit constructed as CoherentUnit extraBit(1, 0)
OrAllExtraBitZero(r, inputBit1, inputBit2, outputBit) ==
    IF inputBit1 = inputBit2 /\ inputBit2 = outputBit THEN {r}
    ELSE IF inputBit1 = outputBit \/ inputBit2 = outputBit
    THEN LET grown == WithExtraBit(r, 0)
             anc == grown.qubitCount - 1
         IN  ExtraBitDisposed(r, DoSwap(DoAntiCCNOT(grown, inputBit1, inputBit2, anc), anc, outputBit))
    ELSE {IF inputBit1 = inputBit2 THEN DoAntiCNOT(z, inputBit1, outputBit)
          ELSE DoAntiCCNOT(z, inputBit1, inputBit2, outputBit) :
             z \in SetBitAll(r, outputBit, TRUE)}

\* the registers OR can leave
OrAll(r, inputBit1, inputBit2, outputBit) ==
    IF inputBit1 = inputBit2 /\ inputBit2 = outputBit THEN {r}
    ELSE IF inputBit1 = outputBit \/ inputBit2 = outputBit
    THEN LET grown == WithExtraBit(r, 1)
             anc == grown.qubitCount - 1
         IN  ExtraBitDisposed(r, DoSwap(DoAntiCCNOT(grown, inputBit1, inputBit2, anc), anc, outputBit))
    ELSE {IF inputBit1 = inputBit2 THEN DoAntiCNOT(z, inputBit1, outputBit)
          ELSE DoAntiCCNOT(z, inputBit1, inputBit2, outputBit) :
             z \in SetBitAll(r, outputBit, TRUE)}

\* the registers XOR can leave
XorAll(r, inputBit1, inputBit2, outputBit) ==
    IF inputBit1 = inputBit2 /\ inputBit2 = outputBit THEN SetBitAll(r, outputBit, FALSE)
    ELSE IF inputBit1 = outputBit \/ inputBit2 = outputBit
    THEN ExtraBitDisposed(r, XorWithAncilla(r, inputBit1, inputBit2, outputBit))
    ELSE {DoCNOT(DoCNOT(z, inputBit1, outputBit), inputBit2, outputBit) :
             z \in SetBitAll(r, outputBit, FALSE)}

AND(inputBit1, inputBit2, outputBit) ==
    /\ WellFormed
    /\ \E n \in AndAll(This, inputBit1, inputBit2, outputBit) :
          Becomes(n, Did("AND", <<inputBit1, inputBit2, outputBit>>, 0))

OR(inputBit1, inputBit2, outputBit) ==
    /\ WellFormed
    /\ \E n \in OrAll(This, inputBit1, inputBit2, outputBit) :
          Becomes(n, Did("OR", <<inputBit1, inputBit2, outputBit>>, 0))

XOR(inputBit1, inputBit2, outputBit) ==
    /\ WellFormed
    /\ \E n \in XorAll(This, inputBit1, inputBit2, outputBit) :
          Becomes(n, Did("XOR", <<inputBit1, inputBit2, outputBit>>, 0))

NextLife ==
    \/ \E q \in Qubits : WellFormed /\ X(q)
    \/ \E q \in Qubits : WellFormed /\ H(q)
    \/ \E c \in Qubits : \E t \in Qubits : WellFormed /\ CNOT(c, t)
    \/ \E q \in Qubits : WellFormed /\ M(q)
    \/ Cohere
    \/ \E start \in Qubits : \E length \in 1 .. MaxQubits : Dispose(start, length)
    \/ \E start \in Qubits : \E length \in 1 .. MaxQubits : Decohere(start, length)
    \/ \E a \in Qubits : \E b \in Qubits : \E c \in Qubits : XOR(a, b, c)

SpecLife == InitLife /\ [][NextLife]_vars

\* C1: after any sequence of public operations the amplitude array has
\* maxQPower cells and maxQPower is 2^qubitCount; Cohere adds the other
\* unit's qubitCount, Decohere and Dispose subtract length, and every other
\* operation leaves qubitCount as it was.
C1_ShapeAndCount ==
    /\ VecLen(stateVec) = maxQPower
    /\ IsPow2Of(maxQPower, qubitCount)
    /\ qubitCount = (CASE op.kind = "Cohere" -> op.was + other.qubitCount
                       [] op.kind \in {"Dispose", "Decohere"} -> op.was - op.args[2]
                       [] OTHER -> op.was)

\* CoherentUnit(IntBits) exists with a single amplitude
C1_ShiftWrapped ==
    /\ op.kind = "ctor"
    /\ qubitCount = IntBits
    /\ maxQPower = 1
    /\ VecLen(stateVec) = 1

\* ------------------------------------------------------------------------
\* Shifts: Reverse, LSL, LSR, ASL, ASR
\* ------------------------------------------------------------------------
RECURSIVE DoReverse(_, _, _)
\* while ((first < last) && (first < (last - 1))) { last--; Swap(first, last); first++; }
DoReverse(r, first, last) ==
    IF first < last /\ first < last - 1
    THEN DoReverse(DoSwap(r, first, last - 1), first + 1, last - 1)
    ELSE r

RECURSIVE ClearBits(_, _)
\* SetBit(qs[1], false); SetBit(qs[2], false); ... from each register of R
ClearBits(R, qs) ==
    IF qs = <<>> THEN R
    ELSE ClearBits(UNION {SetBitAll(r, Head(qs), FALSE) : r \in R}, Tail(qs))

\* the values i takes in  for (i = lo; i < hi; i++), each passed through f
LoopFrom(lo, hi) == [k \in 1 .. (hi - lo) |-> lo + k - 1]

DoLSL(r, shift, start, length) ==
    IF ~(length > 0 /\ shift > 0) THEN {r}
    ELSE IF shift >= length
    THEN ClearBits({r}, LoopFrom(start, start + length))
    ELSE ClearBits(DoROL(r, shift, start, length), LoopFrom(start, shift))

\* the loop clears end - i - 1 for i = start .. shift - 1
DoLSR(r, shift, start, length) ==
    IF ~(length > 0 /\ shift > 0) THEN {r}
    ELSE IF shift >= length
    THEN ClearBits({r}, LoopFrom(start, start + length))
    ELSE ClearBits(DoROR(r, shift, start, length),
                   [k \in 1 .. (shift - start) |-> (start + length) - (start + k - 1) - 1])

DoASL(r, shift, start, length) ==
    LET last == start + length
    IN  IF ~(length > 0 /\ shift > 0) THEN {r}
        ELSE IF shift >= length
        THEN ClearBits({r}, LoopFrom(start, last))
        ELSE ClearBits(
                {DoSwap(DoReverse(DoReverse(DoReverse(DoSwap(r, last - 1, last - 2),
                                                      start, last),
                                            start, start + shift),
                                  start + shift, last),
                        last - 1, last - 2)},
                LoopFrom(0, shift))

DoASR(r, shift, start, length) ==
    LET last == start + length
    IN  IF ~(length > 0 /\ shift > 0) THEN {r}
        ELSE IF shift >= length
        THEN ClearBits({r}, LoopFrom(start, last))
        ELSE ClearBits(
                {DoSwap(DoReverse(DoReverse(DoReverse(DoSwap(r, last - 1, last - 2),
                                                      start + shift, last),
                                            start, start + shift),
                                  start, last),
                        last - 1, last - 2)},
                [k \in 1 .. (shift - start) |-> last - (start + k - 1) - 1])

LSL(shift, start, length) ==
    \E r \in DoLSL(This, shift, start, length) :
        Becomes(r, [Did("LSL", <<shift, start, length>>, 0) EXCEPT
                       !.oob = shift > 0 /\ shift < length
                               /\ WritesOutside(RolTargets(This, shift, start, length), maxQPower)])

LSR(shift, start, length) ==
    \E r \in DoLSR(This, shift, start, length) :
        Becomes(r, [Did("LSR", <<shift, start, length>>, 0) EXCEPT
                       !.oob = shift > 0 /\ shift < length
                               /\ WritesOutside(RorTargets(This, shift, start, length), maxQPower)])

ASL(shift, start, length) ==
    \E r \in DoASL(This, shift, start, length) :
        Becomes(r, Did("ASL", <<shift, start, length>>, 0))

ASR(shift, start, length) ==
    \E r \in DoASR(This, shift, start, length) :
        Becomes(r, Did("ASR", <<shift, start, length>>, 0))

Shifts == 0 .. qubitCount

NextShift ==
    \/ \E w \in Windows : \E shift \in 0 .. (w[2] - 1) : JustSetUp /\ ROL(shift, w[1], w[2])
    \/ \E w \in Windows : \E shift \in 0 .. (w[2] - 1) : JustSetUp /\ ROR(shift, w[1], w[2])
    \/ \E w \in Windows : \E shift \in Shifts : JustSetUp /\ LSL(shift, w[1], w[2])
    \/ \E w \in Windows : \E shift \in Shifts : JustSetUp /\ LSR(shift, w[1], w[2])
    \/ \E w \in Windows : \E shift \in Shifts : JustSetUp /\ ASL(shift, w[1], w[2])
    \/ \E w \in Windows : \E shift \in Shifts : JustSetUp /\ ASR(shift, w[1], w[2])

SpecShift == InitPerm /\ [][NextShift]_vars

\* the indices that hold a nonzero amplitude
Support(sv) == {i \in DOMAIN sv : sv[i] # CZero}

\* index i with the bits [start, start + length) cleared
Outside(i, start, length) == WithWindow(i, start, length, 0)

ShiftKinds == {"ROL", "ROR", "LSL", "LSR", "ASL", "ASR"}

\* C11: a bit-range operation ROL, ROR, LSL, LSR, ASL or ASR on a basis
\* state keeps the value of every qubit outside [start, start + length) and
\* touches no amplitude index at or beyond 2^qubitCount.
C11_ShiftFrame ==
    [][(op'.kind \in ShiftKinds /\ Cardinality(Support(stateVec)) = 1)
          => /\ ~op'.oob
             /\ \A p \in Support(stateVec) : \A i \in Support(stateVec') :
                   Outside(i, op'.args[2], op'.args[3]) = Outside(p, op'.args[2], op'.args[3])]_vars

\* ROR(0, 0, 1) on two qubits has left |11>, which only |01> leads to: the
\* qubit above the window went from 0 to 1
C11_RorSpilled ==
    /\ op.kind = "ROR"
    /\ op.args = <<0, 0, 1>>
    /\ qubitCount = 2
    /\ Support(stateVec) = {3}

\* what a logical shift of the window value x is meant to leave
ShiftedLeft(x, shift, length) ==
    IF shift >= length THEN 0 ELSE (x * Pow2(shift)) % Pow2(length)

ShiftedRight(x, shift, length) ==
    IF shift >= length THEN 0 ELSE x \div Pow2(shift)

\* C12: on a basis state whose window [start, start + length) holds x, LSL
\* with shift > 0 leaves the window holding (x << shift) mod 2^length and LSR
\* leaves it holding x >> shift (0 for both when shift >= length), for every
\* start.
C12_LogicalShift ==
    [][(op'.kind \in {"LSL", "LSR"} /\ op'.args[1] > 0 /\ Cardinality(Support(stateVec)) = 1)
          => \A p \in Support(stateVec) :
                LET shift == op'.args[1]
                    start == op'.args[2]
                    length == op'.args[3]
                    x == WindowOf(p, start, length)
                IN  /\ Support(stateVec') # {}
                    /\ \A i \in Support(stateVec') :
                          WindowOf(i, start, length)
                             = IF op'.kind = "LSL" THEN ShiftedLeft(x, shift, length)
                               ELSE ShiftedRight(x, shift, length)]_vars

\* LSL(1, 1, 2) on three qubits has left the window [1, 3) holding 1
C12_LslLowBitKept ==
    /\ op.kind = "LSL"
    /\ op.args = <<1, 1, 2>>
    /\ \E i \in Support(stateVec) : WindowOf(i, 1, 2) = 1

\* ------------------------------------------------------------------------
\* ADDBCD and kernel addbcd
\* ------------------------------------------------------------------------
\* bciArgs of ADDBCD, positions 0 .. 9 held at 1 .. 10
BcdArgs(r, inOutStart, inStart, length) ==
    <<r.maxQPower,
      RegMask(inOutStart, length, 0),
      RegMask(inStart, length, 0),
      (Shl(1, r.qubitCount) - 1) - (RegMask(inOutStart, length, 0) + RegMask(inStart, length, 0)),
      Shl(1, length),
      inOutStart,
      inStart,
      length \div NibbleBits,
      0,
      0>>

\* test1 = (inOutInt & (15 << (j * 4))), stored in a uchar
NibbleTest(v, j) == BitAnd(v, Shl(15, j * 4)) % 256

RECURSIVE BcdCarry(_, _, _, _)
\* for (j = 0; j < nibbleCount; j++) {
\*     if (nibbles[j] > 9) { nibbles[j] -= 10; if ((j + 1) < nibbleCount) nibbles[j + 1]++; }
\*     outInt |= nibbles[j] << (j * 4); }
BcdCarry(nibbles, j, nibbleCount, outInt) ==
    IF j >= nibbleCount THEN outInt
    ELSE LET big == nibbles[j + 1] > 9
             nj == IF big THEN nibbles[j + 1] - 10 ELSE nibbles[j + 1]
             n1 == [nibbles EXCEPT ![j + 1] = nj]
             n2 == IF big /\ j + 1 < nibbleCount
                   THEN [n1 EXCEPT ![j + 2] = (n1[j + 2] + 1) % 256] ELSE n1
         IN  BcdCarry(n2, j + 1, nibbleCount, BitOr(outInt, Shl(nj, j * 4)))

\* kernel addbcd: the output index of work-item index lcv; the kernel takes
\* nibbleCount from ulongPtr[9]
addbcd(lcv, ulongPtr) ==
    LET inOutMask == ulongPtr[2]
        inMask == ulongPtr[3]
        otherMask == ulongPtr[4]
        inOutStart == ulongPtr[6]
        inStart == ulongPtr[7]
        nibbleCount == ulongPtr[10]
        otherRes == BitAnd(lcv, otherMask)
        inOutInt == Shr(BitAnd(lcv, inOutMask), inOutStart)
        inRes == BitAnd(lcv, inMask)
        inInt == Shr(inRes, inStart)
        nibbles == [k \in 1 .. nibbleCount |->
                       (NibbleTest(inOutInt, k - 1) + NibbleTest(inInt, k - 1)) % 256]
        isValid == \A k \in 1 .. nibbleCount :
                      ~(NibbleTest(inOutInt, k - 1) > 9 \/ NibbleTest(inInt, k - 1) > 9)
    IN  IF otherRes = lcv THEN lcv
        ELSE IF isValid
        THEN BitOr(BitOr(Shl(BcdCarry(nibbles, 0, nibbleCount, 0), inOutStart), otherRes), inRes)
        ELSE lcv

BcdTargets(r, inOutStart, inStart, length) ==
    [lcv \in 0 .. (r.maxQPower - 1) |-> addbcd(lcv, BcdArgs(r, inOutStart, inStart, length))]

\* Scatter for a long array: the writes are gathered once as pairs of
\* target and source cell, the cells with one candidate are fixed and the
\* choice runs over the contested cells only.
ScatterWide(sv, tf, maxI) ==
    LET writes == {<<tf[l], sv[l]>> : l \in 0 .. (maxI - 1)}
        cands == [j \in 0 .. (maxI - 1) |->
                    IF \E w \in writes : w[1] = j
                    THEN {w[2] : w \in {v \in writes : v[1] = j}}
                    ELSE {FreshBuffer(maxI)[j]}]
        contested == {j \in 0 .. (maxI - 1) : Cardinality(cands[j]) > 1}
        picks == {c \in [contested -> {w[2] : w \in writes}] :
                     \A j \in contested : c[j] \in cands[j]}
    IN  {[j \in 0 .. (maxI - 1) |->
            IF j \in contested THEN c[j] ELSE CHOOSE a \in cands[j] : TRUE] :
         c \in picks}

DoADDBCD(r, inOutStart, inStart, length) ==
    {[r EXCEPT !.stateVec = nsv] :
        nsv \in ScatterWide(r.stateVec, BcdTargets(r, inOutStart, inStart, length), r.maxQPower)}

\* The object takes the fields of r as they are: amplitudes that are units
\* or zero under the common factor 1 are in the unique representation.
BecomesAsIs(r, o) ==
    /\ qubitCount' = r.qubitCount
    /\ maxQPower' = r.maxQPower
    /\ stateVec' = r.stateVec
    /\ scaleSq' = r.scaleSq
    /\ runningNormSq' = r.runningNormSq
    /\ op' = o
    /\ other' = NoReg
    /\ UNCHANGED <<pfVars, oclVars>>

\* if (nibbleCount * 4 != length) throw std::invalid_argument(...)
ADDBCD(inOutStart, inStart, length) ==
    IF (length \div NibbleBits) * NibbleBits # length
    THEN BecomesAsIs(This, Threw("ADDBCD", <<inOutStart, inStart, length>>))
    ELSE \E r \in DoADDBCD(This, inOutStart, inStart, length) :
            BecomesAsIs(r, [Did("ADDBCD", <<inOutStart, inStart, length>>, 0) EXCEPT
                           !.oob = WritesOutside(BcdTargets(This, inOutStart, inStart, length),
                                                 maxQPower)])

\* CoherentUnit(2 * NibbleBits, initState): one digit for each register
InitBcd ==
    /\ PfIdle
    /\ OclIdle
    /\ \E perm \in 0 .. (Pow2(2 * NibbleBits) - 1) :
          /\ qubitCount = 2 * NibbleBits
          /\ maxQPower = Shl(1, 2 * NibbleBits)
          /\ stateVec = BasisVec(2 * NibbleBits, perm, COne)
          /\ scaleSq = ROne
          /\ runningNormSq = ROne
    /\ op = Did("ctor", <<>>, 0)
    /\ other = NoReg

NextBcd ==
    \E starts \in {<<0, NibbleBits>>, <<NibbleBits, 0>>} : \E length \in {NibbleBits - 1, NibbleBits} :
        JustSetUp /\ ADDBCD(starts[1], starts[2], length)

SpecBcd == InitBcd /\ [][NextBcd]_vars

\* the binary-coded decimal sum of two digits
BcdDigitSum(a, b) == (a + b) % 10

\* C13: on a basis state whose inOut and in registers hold digits a and b,
\* both at most 9, ADDBCD leaves the basis state with inOut holding
\* (a + b) mod 10 and everything else as it was; with a digit above 9 the
\* basis state keeps its index.
C13_BcdSum ==
    [][(op'.kind = "ADDBCD" /\ ~op'.threw)
          => \A p \in Support(stateVec) :
                LET inOutStart == op'.args[1]
                    a == WindowOf(p, inOutStart, NibbleBits)
                    b == WindowOf(p, op'.args[2], NibbleBits)
                IN  Support(stateVec')
                       = {IF a <= 9 /\ b <= 9
                          THEN WithWindow(p, inOutStart, NibbleBits, BcdDigitSum(a, b))
                          ELSE p}]_vars

\* ADDBCD has run on digits that are not both zero and left inOut at zero
C13_DigitsCleared ==
    /\ op.kind = "ADDBCD"
    /\ ~op.threw
    /\ \E i \in Support(stateVec) :
          /\ WindowOf(i, op.args[1], NibbleBits) = 0
          /\ WindowOf(i, op.args[2], NibbleBits) \in 1 .. 9

\* ------------------------------------------------------------------------
\* ADDC, SUBC and the kernels addc, subc, run by one work-item
\* ------------------------------------------------------------------------
\* bciArgs of ADDC and SUBC
CarryArgs(r, inOutStart, inStart, length, carryIndex) ==
    [maxQPower |-> r.maxQPower,
     maxI |-> Shr(r.maxQPower, 1),
     inOutMask |-> RegMask(inOutStart, length, 0),
     inMask |-> RegMask(inStart, length, 0),
     carryMask |-> Shl(1, carryIndex),
     otherMask |-> (Shl(1, r.qubitCount) - 1)
                      - (RegMask(inOutStart, length, 0) + RegMask(inStart, length, 0)
                         + Shl(1, carryIndex)),
     lengthPower |-> Shl(1, length),
     inOutStart |-> inOutStart, inStart |-> inStart, carryIndex |-> carryIndex]

\* iLow = iHigh % carryMask; i = iLow + ((iHigh - iLow) << 1)
CarryClear(lcv, a) == ExpandIndex(0, 1, <<a.carryMask>>, 0, lcv)

\* kernel addc, first loop: the index read and the index written
addcIn0(lcv, a) ==
    LET i == CarryClear(lcv, a)
        otherRes == BitAnd(i, a.otherMask)
        inOutInt == Shr(BitAnd(i, a.inOutMask), a.inOutStart)
        inRes == BitAnd(i, a.inMask)
        outInt == inOutInt + Shr(inRes, a.inStart)
    IN  <<i,
          IF outInt < a.lengthPower
          THEN BitOr(BitOr(Shl(outInt, a.inOutStart), otherRes), inRes)
          ELSE BitOr(BitOr(BitOr(Shl(outInt - a.lengthPower, a.inOutStart), otherRes), inRes),
                     a.carryMask)>>

\* kernel addc, second loop
addcIn1(lcv, a) ==
    LET i == CarryClear(lcv, a)
        otherRes == BitAnd(i, a.otherMask)
        inOutInt == Shr(BitAnd(i, a.inOutMask), a.inOutStart)
        inRes == BitAnd(i, a.inMask)
        outInt == inOutInt + Shr(inRes, a.inStart) + 1
    IN  <<BitOr(i, a.carryMask),
          IF outInt < a.lengthPower
          THEN BitOr(BitOr(Shl(outInt, a.inOutStart), otherRes), inRes)
          ELSE BitOr(BitOr(BitOr(Shl(outInt - a.lengthPower, a.inOutStart), otherRes), inRes),
                     a.carryMask)>>

\* kernel subc, first loop
subcIn0(lcv, a) ==
    LET i == CarryClear(lcv, a)
        otherRes == BitAnd(i, a.otherMask)
        inOutInt == Shr(BitAnd(i, a.inOutMask), a.inOutStart)
        inRes == BitAnd(i, a.inMask)
        outInt == (inOutInt - Shr(inRes, a.inStart)) + a.lengthPower
    IN  <<i,
          IF outInt < a.lengthPower
          THEN BitOr(BitOr(BitOr(Shl(outInt, a.inOutStart), otherRes), inRes), a.carryMask)
          ELSE BitOr(BitOr(Shl(outInt - a.lengthPower, a.inOutStart), otherRes), inRes)>>

\* kernel subc, second loop: inRes is taken from lcv, not from i
subcIn1(lcv, a) ==
    LET i == CarryClear(lcv, a)
        otherRes == BitAnd(i, a.otherMask)
        inOutInt == Shr(BitAnd(i, a.inOutMask), a.inOutStart)
        inRes == BitAnd(lcv, a.inMask)
        outInt == (inOutInt - Shr(inRes, a.inStart) - 1) + a.lengthPower
    IN  <<BitOr(i, a.carryMask),
          IF outInt < a.lengthPower
          THEN BitOr(BitOr(BitOr(Shl(outInt, a.inOutStart), otherRes), inRes), a.carryMask)
          ELSE BitOr(BitOr(Shl(outInt - a.lengthPower, a.inOutStart), otherRes), inRes)>>

\* temp = stateVec[i] * stateVec[i]; temp.x + temp.y, in units of the
\* squared common factor
CellNorm(r, i) == normSqrd(r.stateVec[i])

\* The x fields of nStateVec after the first two loops, in the same units.
\* in0 and in1 give, for each lcv, the index read and the index written by
\* the first and the second loop.  The first loop assigns (the cell keeps
\* the value of the last lcv that wrote it, 0.0 from std::fill if none did),
\* the second adds.
CarrySums(r, in0, in1, maxI) ==
    [j \in 0 .. (r.maxQPower - 1) |->
        (IF \E lcv \in 0 .. (maxI - 1) : in0[lcv][2] = j
         THEN CellNorm(r, in0[CHOOSE lcv \in 0 .. (maxI - 1) :
                                 /\ in0[lcv][2] = j
                                 /\ \A l \in 0 .. (maxI - 1) : in0[l][2] = j => l <= lcv][1])
         ELSE 0)
        + SumOver([lcv \in 0 .. (maxI - 1) |->
                      IF in1[lcv][2] = j THEN CellNorm(r, in1[lcv][1]) ELSE 0], 0, maxI)]

\* The squares of the amplitudes the third loop leaves, as integers over the
\* square of the common factor's denominator: the loop runs over lcv < maxI
\* only, so the cells below maxI hold sqrt(x) and those from maxI on hold x.
CarrySquares(r, sums, maxI) ==
    [j \in DOMAIN sums |->
        IF j < maxI THEN r.scaleSq[1] * r.scaleSq[2] * sums[j]
        ELSE r.scaleSq[1] * r.scaleSq[1] * sums[j] * sums[j]]

\* the register a carry kernel leaves: real amplitudes, the fields other
\* than stateVec untouched by the host
CarryResult(r, squares) ==
    LET g == GcdOfInts(squares, 0, VecLen(squares))
    IN  IF g = 0 THEN [r EXCEPT !.stateVec = FreshBuffer(r.maxQPower), !.scaleSq = ROne]
        ELSE [r EXCEPT !.stateVec = [j \in DOMAIN squares |-> <<ISqrt(squares[j] \div g), 0>>],
                       !.scaleSq = Rat(g, r.scaleSq[2] * r.scaleSq[2])]

AddcSums(r, a) ==
    CarrySums(r, [lcv \in 0 .. (a.maxI - 1) |-> addcIn0(lcv, a)],
                 [lcv \in 0 .. (a.maxI - 1) |-> addcIn1(lcv, a)], a.maxI)

SubcSums(r, a) ==
    CarrySums(r, [lcv \in 0 .. (a.maxI - 1) |-> subcIn0(lcv, a)],
                 [lcv \in 0 .. (a.maxI - 1) |-> subcIn1(lcv, a)], a.maxI)

DoADDC(r, inOutStart, inStart, length, carryIndex) ==
    LET a == CarryArgs(r, inOutStart, inStart, length, carryIndex)
    IN  CarryResult(r, CarrySquares(r, AddcSums(r, a), a.maxI))

DoSUBC(r, inOutStart, toSub, length, carryIndex) ==
    LET a == CarryArgs(r, inOutStart, toSub, length, carryIndex)
    IN  CarryResult(r, CarrySquares(r, SubcSums(r, a), a.maxI))

\* the registers and the carry qubit are apart and inside the unit
CarryLayout(inOutStart, inStart, length, carryIndex) ==
    /\ Disjoint(inOutStart, inStart, length)
    /\ inOutStart + length <= qubitCount
    /\ inStart + length <= qubitCount
    /\ carryIndex < qubitCount
    /\ ~(carryIndex \in inOutStart .. (inOutStart + length - 1))
    /\ ~(carryIndex \in inStart .. (inStart + length - 1))

\* the gates that prepare the operand
Preparing == op.kind \in {"ctor", "H"}

ADDC(inOutStart, inStart, length, carryIndex) ==
    LET a == CarryArgs(This, inOutStart, inStart, length, carryIndex)
    IN  /\ Preparing
        /\ CarryLayout(inOutStart, inStart, length, carryIndex)
        /\ RootsExact(CarrySquares(This, AddcSums(This, a), a.maxI))
        /\ Becomes(DoADDC(This, inOutStart, inStart, length, carryIndex),
                   Did("ADDC", <<inOutStart, inStart, length, carryIndex>>, 0))

SUBC(inOutStart, toSub, length, carryIndex) ==
    LET a == CarryArgs(This, inOutStart, toSub, length, carryIndex)
    IN  /\ Preparing
        /\ CarryLayout(inOutStart, toSub, length, carryIndex)
        /\ RootsExact(CarrySquares(This, SubcSums(This, a), a.maxI))
        /\ Becomes(DoSUBC(This, inOutStart, toSub, length, carryIndex),
                   Did("SUBC", <<inOutStart, toSub, length, carryIndex>>, 0))

\* CoherentUnit(qBitCount, initState) with room for two registers and a carry
InitCarry ==
    /\ PfIdle
    /\ OclIdle
    /\ \E n \in (MaxQubits + 1) .. (MaxQubits + 2) : \E perm \in 0 .. (Pow2(n) - 1) :
          /\ qubitCount = n
          /\ maxQPower = Shl(1, n)
          /\ stateVec = BasisVec(n, perm, COne)
          /\ scaleSq = ROne
          /\ runningNormSq = ROne
    /\ op = Did("ctor", <<>>, 0)
    /\ other = NoReg

NextCarry ==
    \/ \E q \in Qubits : Preparing /\ H(q)
    \/ \E w \in Windows : \E inStart \in Qubits : \E carryIndex \in Qubits :
          ADDC(w[1], inStart, w[2], carryIndex)
    \/ \E w \in Windows : \E toSub \in Qubits : \E carryIndex \in Qubits :
          SUBC(w[1], toSub, w[2], carryIndex)

SpecCarry == InitCarry /\ [][NextCarry]_vars

\* the probability of index i: its squared amplitude
ProbOf(r, i) == RMul(r.scaleSq, <<normSqrd(r.stateVec[i]), 1>>)

\* the sum of the probabilities of the indices of r that tf sends to j
ProbInto(r, tf, j) ==
    RMul(r.scaleSq,
         <<SumOver([i \in DOMAIN r.stateVec |->
                      IF tf[i] = j THEN normSqrd(r.stateVec[i]) ELSE 0],
                   0, VecLen(r.stateVec)), 1>>)

\* index i with the carry qubit set to k
WithCarry(i, carryIndex, k) == WithWindow(i, carryIndex, 1, k)

\* where addition with carry is meant to send index i:
\* inOut = (x + y + c) mod 2^length, carry = 1 iff x + y + c >= 2^length
AddcMeant(i, inOutStart, inStart, length, carryIndex) ==
    LET total == WindowOf(i, inOutStart, length) + WindowOf(i, inStart, length)
                    + WindowOf(i, carryIndex, 1)
    IN  WithCarry(WithWindow(i, inOutStart, length, total % Pow2(length)),
                  carryIndex, total \div Pow2(length))

\* where subtraction with borrow is meant to send index i:
\* inOut = (x - y - c) mod 2^length, carry = 1 iff x - y - c < 0
SubcMeant(i, inOutStart, toSub, length, carryIndex) ==
    LET diff == WindowOf(i, inOutStart, length) - WindowOf(i, toSub, length)
                    - WindowOf(i, carryIndex, 1)
    IN  WithCarry(WithWindow(i, inOutStart, length, (diff + Pow2(length)) % Pow2(length)),
                  carryIndex, IF diff < 0 THEN 1 ELSE 0)

\* C14: after ADDC with the carry qubit outside both registers, run by one
\* work-item, the probability of every output index is the sum of the
\* probabilities of the inputs that addition with carry sends to it, in the
\* lower and in the upper half of the index range (so the total probability
\* is kept and a basis input gives the one basis output).
C14_AddcProbabilities ==
    [][op'.kind = "ADDC"
          => \A j \in DOMAIN stateVec :
                ProbOf(ThisNext, j)
                   = ProbInto(This,
                              [i \in DOMAIN stateVec |->
                                  AddcMeant(i, op'.args[1], op'.args[2], op'.args[3],
                                            op'.args[4])],
                              j)]_vars

\* ADDC has left amplitudes whose squares sum to less than 1
C14_ProbabilityLost ==
    /\ op.kind = "ADDC"
    /\ RLess(NormSq(This), ROne)

\* C15: SUBC with the carry qubit anywhere outside both registers, run by
\* one work-item, sends the basis input (inOut = x, in = y, carry = c) to the
\* one basis output with inOut = (x - y - c) mod 2^length, carry = 1 iff
\* x - y - c < 0, and in and the other qubits as they were.
C15_SubcBasis ==
    [][(op'.kind = "SUBC" /\ Cardinality(Support(stateVec)) = 1)
          => \A p \in Support(stateVec) :
                Support(stateVec')
                   = {SubcMeant(p, op'.args[1], op'.args[2], op'.args[3], op'.args[4])}]_vars

\* SUBC has run with the carry qubit below the subtrahend register and
\* left a basis state
C15_CarryBelow ==
    /\ op.kind = "SUBC"
    /\ op.args[4] < op.args[2]
    /\ Cardinality(Support(stateVec)) = 1

\* ------------------------------------------------------------------------
\* Cohere and Decohere as maps on probability distributions
\* ------------------------------------------------------------------------
\* the probability Prob-style reads give index i: NormalizeState first
Chance(r, i) == ProbOf(Normalized(r), i)

\* j = (i & startMask) + ((i & endMask) >> length)
Remaining(i, start, length, qBitCount) ==
    BitAnd(i, BitsMask(0, start)) + Shr(BitAnd(i, BitsMask(start + length, qBitCount)), length)

\* registers joined up to MaxQubits + 1 qubits and cut again; gates prepare
\* superposed and entangled registers of up to MaxQubits qubits
InitJoin ==
    /\ PfIdle
    /\ OclIdle
    /\ \E n \in 1 .. MaxQubits : \E perm \in 0 .. (Pow2(n) - 1) :
          /\ qubitCount = n
          /\ maxQPower = Shl(1, n)
          /\ stateVec = BasisVec(n, perm, COne)
          /\ scaleSq = ROne
          /\ runningNormSq = ROne
    /\ op = Did("ctor", <<>>, 0)
    /\ other = NoReg

NextJoin ==
    \/ \E q \in Qubits : qubitCount <= MaxQubits /\ H(q)
    \/ \E c \in Qubits : \E t \in Qubits : qubitCount <= MaxQubits /\ CNOT(c, t)
    \/ CohereWithin(MaxQubits + 1)
    \/ \E start \in Qubits : \E length \in 1 .. MaxQubits : Decohere(start, length)

SpecJoin == InitJoin /\ [][NextJoin]_vars

\* the probabilities of r sum to one: runningNorm is the norm of its array
HasDistribution(r) == NormSq(r) = r.runningNormSq

\* every index of r has the probability pA[i mod 2^m] * pB[i >> m]
IsProduct(r, a, b) ==
    \A i \in DOMAIN r.stateVec :
        Chance(r, i) = RMul(Chance(a, i % a.maxQPower), Chance(b, i \div a.maxQPower))

SameChances(r, a) ==
    /\ r.qubitCount = a.qubitCount
    /\ \A i \in DOMAIN a.stateVec : Chance(r, i) = Chance(a, i)

\* every index j of r has the summed probability of the indices i of the
\* register it was cut from with (i & startMask) + ((i & endMask) >> length) = j
IsMarginal(r, from, start, length) ==
    LET n == Normalized(from)
        tf == [i \in DOMAIN from.stateVec |-> Remaining(i, start, length, from.qubitCount)]
    IN  /\ r.qubitCount = from.qubitCount - length
        /\ \A j \in DOMAIN r.stateVec : Chance(r, j) = ProbInto(n, tf, j)

\* C16: for registers that have probability distributions,
\* after A.Cohere(B) every index i has probability
\* pA[i mod 2^m] * pB[i >> m]; Decohere(m, k, dest) right after leaves A with
\* m qubits and distribution pA and dest with distribution pB; and
\* Decohere(start, length, dest) leaves the unit with the marginal over the
\* remaining qubits, re-indexed by (i & startMask) + ((i & endMask) >> length).
C16_CohereDecohere ==
    [][/\ (op'.kind = "Cohere" /\ HasDistribution(This) /\ HasDistribution(op'.args[1]))
          => LET a == This
                 b == op'.args[1]
                 ab == ThisNext
             IN  /\ IsProduct(ab, a, b)
                 /\ (/\ RootsExact(RemainderProb(Normalized(ab), a.qubitCount, b.qubitCount))
                     /\ RootsExact(PartProb(Normalized(ab), a.qubitCount, b.qubitCount)))
                    => \A ph \in Phases :
                          /\ SameChances(DoDispose(ab, a.qubitCount, b.qubitCount, ph), a)
                          /\ SameChances(DoDecohereDest(ab, a.qubitCount, b.qubitCount,
                                                        NewUnit(b.qubitCount, 0, COne), ph), b)
       /\ (op'.kind = "Decohere" /\ HasDistribution(This))
          => IsMarginal(ThisNext, This, op'.args[1], op'.args[2])]_vars

\* a register of MaxQubits + 1 qubits, joined by Cohere, has had its middle
\* qubit cut out and is left in a superposition
C16_MiddleCutOut ==
    /\ op.kind = "Decohere"
    /\ op.was = MaxQubits + 1
    /\ op.args = <<1, 1>>
    /\ Cardinality(Support(stateVec)) >= 2
    /\ Cardinality(Support(other.stateVec)) = 2

\* C19: A.Cohere(other) leaves other's amplitudes, qubitCount and
\* runningNorm as they were handed over, whatever other's runningNorm.
C19_CohereKeepsOther ==
    op.kind = "Cohere" => other = op.args[1]

\* Cohere has been handed a unit whose runningNorm was not 1
C19_OtherNormalized ==
    /\ op.kind = "Cohere"
    /\ op.args[1].runningNormSq # ROne

\* ------------------------------------------------------------------------
\* AND, OR, XOR on basis states
\* ------------------------------------------------------------------------
InitGate ==
    /\ PfIdle
    /\ OclIdle
    /\ \E n \in 1 .. (MaxQubits + 1) : \E perm \in 0 .. (Pow2(n) - 1) : \E phase \in Phases :
          /\ qubitCount = n
          /\ maxQPower = Shl(1, n)
          /\ stateVec = BasisVec(n, perm, phase)
          /\ scaleSq = ROne
          /\ runningNormSq = ROne
    /\ op = Did("ctor", <<>>, 0)
    /\ other = NoReg

\* one gate on each basis state
NextGate ==
    \/ \E a \in Qubits : \E b \in Qubits : \E c \in Qubits : JustSetUp /\ AND(a, b, c)
    \/ \E a \in Qubits : \E b \in Qubits : \E c \in Qubits : JustSetUp /\ OR(a, b, c)
    \/ \E a \in Qubits : \E b \in Qubits : \E c \in Qubits : JustSetUp /\ XOR(a, b, c)

SpecGate == InitGate /\ [][NextGate]_vars

\* the value of bit q of index i, as 0 or 1
BitAt(i, q) == (i \div Pow2(q)) % 2

\* index i with bit q holding v
WithBit(i, q, v) == i - BitAt(i, q) * Pow2(q) + v * Pow2(q)

\* what each gate is meant to compute from its two input values
GateValue(kind, v1, v2) ==
    IF kind = "AND" THEN v1 * v2
    ELSE IF kind = "OR" THEN (IF v1 + v2 > 0 THEN 1 ELSE 0)
    ELSE (v1 + v2) % 2

GateAll(kind, r, a, b, c) ==
    IF kind = "AND" THEN AndAll(r, a, b, c)
    ELSE IF kind = "OR" THEN OrAll(r, a, b, c)
    ELSE XorAll(r, a, b, c)

\* r is the basis state of index i, on count qubits
IsBasisOf(r, i, count) ==
    /\ r.qubitCount = count
    /\ VecLen(r.stateVec) = Pow2(count)
    /\ Support(r.stateVec) = {i}

\* C17: on a basis state every gate, for every triple of in-range qubits,
\* finishes, leaves outputBit holding in1 AND in2, in1 OR in2 or in1 XOR in2
\* of the values before the call, and changes no other qubit and not the
\* qubit count: every register the gate can leave from a constructed basis
\* state is the meant basis state, and there is one.
C17_GatesOnBasisStates ==
    (JustSetUp /\ WellFormed /\ Cardinality(Support(stateVec)) = 1)
       => LET p == CHOOSE i \in Support(stateVec) : TRUE
          IN  \A kind \in {"AND", "OR", "XOR"} :
              \A a \in Qubits : \A b \in Qubits : \A c \in Qubits :
                 LET all == GateAll(kind, This, a, b, c)
                     meant == WithBit(p, c, GateValue(kind, BitAt(p, a), BitAt(p, b)))
                 IN  /\ all # {}
                     /\ \A n \in all : IsBasisOf(n, meant, qubitCount)

\* OR has written a 1 into an output that is also one of its inputs and held
\* 0, on three qubits
C17_OrIntoItsInput ==
    /\ op.kind = "OR"
    /\ op.was = MaxQubits + 1
    /\ op.args[1] # op.args[2]
    /\ op.args[3] = op.args[1]
    /\ Cardinality(Support(stateVec)) = 1
    /\ \A i \in Support(stateVec) : BitAt(i, op.args[1]) = 1 /\ BitAt(i, op.args[2]) = 1

\* ------------------------------------------------------------------------
\* CLAND, CLOR, CLXOR over a range, with a classical integer
\* ------------------------------------------------------------------------
\* The outcomes of a call are pairs <<register, threw>>.
\* CLAND(inputQBit, inputClassicalBit, outputBit)
ClAndAll(r, inputQBit, inputClassicalBit, outputBit) ==
    IF inputClassicalBit /\ inputQBit = outputBit THEN {<<r, FALSE>>}
    ELSE {IF ~inputClassicalBit THEN <<z, FALSE>>
          ELSE IF inputQBit = outputBit THEN <<z, TRUE>>
          ELSE <<DoCNOT(z, inputQBit, outputBit), FALSE>> :
             z \in SetBitAll(r, outputBit, FALSE)}

\* CLOR(inputQBit, inputClassicalBit, outputBit)
ClOrAll(r, inputQBit, inputClassicalBit, outputBit) ==
    IF ~inputClassicalBit /\ inputQBit = outputBit THEN {<<r, FALSE>>}
    ELSE IF inputClassicalBit THEN {<<z, FALSE>> : z \in SetBitAll(r, outputBit, TRUE)}
    ELSE {IF inputQBit = outputBit THEN <<z, TRUE>>
          ELSE <<DoCNOT(z, inputQBit, outputBit), FALSE>> :
             z \in SetBitAll(r, outputBit, FALSE)}

\* CLXOR(inputQBit, inputClassicalBit, outputBit)
ClXorAll(r, inputQBit, inputClassicalBit, outputBit) ==
    IF ~inputClassicalBit /\ inputQBit = outputBit THEN {<<r, FALSE>>}
    ELSE {IF inputQBit = outputBit THEN <<z, TRUE>>
          ELSE <<DoCNOT(z, inputQBit, outputBit), FALSE>> :
             z \in SetBitAll(r, outputBit, inputClassicalBit)}

ClAll(kind, r, inputQBit, inputClassicalBit, outputBit) ==
    IF kind = "CLAND" THEN ClAndAll(r, inputQBit, inputClassicalBit, outputBit)
    ELSE IF kind = "CLOR" THEN ClOrAll(r, inputQBit, inputClassicalBit, outputBit)
    ELSE ClXorAll(r, inputQBit, inputClassicalBit, outputBit)

RECURSIVE ClRangeFrom(_, _, _, _, _, _, _)
\* for (i = from; i < length; i++) { cBit = (1<<i) & classicalInput;
\*     CLxx(qInputStart, cBit, outputStart + i); }
\* on every outcome so far; an exception ends the loop
ClRangeFrom(kind, outcomes, qInputStart, classicalInput, outputStart, length, from) ==
    IF from >= length THEN outcomes
    ELSE ClRangeFrom(kind,
                     UNION {IF o[2] THEN {o}
                            ELSE ClAll(kind, o[1], qInputStart,
                                       BitAnd(Shl(1, from), classicalInput) # 0,
                                       outputStart + from) : o \in outcomes},
                     qInputStart, classicalInput, outputStart, length, from + 1)

ClRangeAll(kind, r, qInputStart, classicalInput, outputStart, length) ==
    ClRangeFrom(kind, {<<r, FALSE>>}, qInputStart, classicalInput, outputStart, length, 0)

ClRange(kind, qInputStart, classicalInput, outputStart, length) ==
    /\ WellFormed
    /\ \E o \in ClRangeAll(kind, This, qInputStart, classicalInput, outputStart, length) :
          Becomes(o[1], IF o[2]
                        THEN Threw(kind, <<qInputStart, classicalInput, outputStart, length>>)
                        ELSE Did(kind, <<qInputStart, classicalInput, outputStart, length>>, 0))

CLANDRange(qInputStart, classicalInput, outputStart, length) ==
    ClRange("CLAND", qInputStart, classicalInput, outputStart, length)

CLORRange(qInputStart, classicalInput, outputStart, length) ==
    ClRange("CLOR", qInputStart, classicalInput, outputStart, length)

CLXORRange(qInputStart, classicalInput, outputStart, length) ==
    ClRange("CLXOR", qInputStart, classicalInput, outputStart, length)

\* basis states of 2 to MaxQubits + 2 qubits: two disjoint ranges of two qubits
InitRange ==
    /\ PfIdle
    /\ OclIdle
    /\ \E n \in 2 .. (MaxQubits + 2) : \E perm \in 0 .. (Pow2(n) - 1) :
          /\ qubitCount = n
          /\ maxQPower = Shl(1, n)
          /\ stateVec = BasisVec(n, perm, COne)
          /\ scaleSq = ROne
          /\ runningNormSq = ROne
    /\ op = Did("ctor", <<>>, 0)
    /\ other = NoReg

\* the in-range calls: <<qInputStart, classicalInput, outputStart, length>>
RangeCalls ==
    {x \in Qubits \X (0 .. (Pow2(MaxQubits) - 1)) \X Qubits \X (1 .. MaxQubits) :
        /\ x[1] + x[4] <= qubitCount
        /\ x[3] + x[4] <= qubitCount
        /\ x[2] < Pow2(x[4])}

NextRange ==
    \/ \E x \in RangeCalls : JustSetUp /\ CLANDRange(x[1], x[2], x[3], x[4])
    \/ \E x \in RangeCalls : JustSetUp /\ CLORRange(x[1], x[2], x[3], x[4])
    \/ \E x \in RangeCalls : JustSetUp /\ CLXORRange(x[1], x[2], x[3], x[4])

SpecRange == InitRange /\ [][NextRange]_vars

\* index q is index p with every qubit outputStart + i holding
\* (qubit qInputStart + i of p) op (bit i of c) and every other qubit as in p
RangeMeant(kind, p, q, x, count) ==
    \A k \in 0 .. (count - 1) :
        BitAt(q, k) = IF k >= x[3] /\ k < x[3] + x[4]
                      THEN GateValue(IF kind = "CLAND" THEN "AND"
                                     ELSE IF kind = "CLOR" THEN "OR" ELSE "XOR",
                                     BitAt(p, x[1] + (k - x[3])), BitAt(x[2], k - x[3]))
                      ELSE BitAt(p, k)

\* C18: on a basis state, with disjoint input and output ranges, each range
\* form leaves qubit outputStart + i holding (qubit qInputStart + i) op
\* (bit i of c) for every i < length and every other qubit unchanged: every
\* register the call can leave from a constructed basis state is that basis
\* state.
C18_RangeBitwise ==
    (JustSetUp /\ WellFormed /\ Cardinality(Support(stateVec)) = 1)
       => LET p == CHOOSE i \in Support(stateVec) : TRUE
          IN  \A kind \in {"CLAND", "CLOR", "CLXOR"} :
              \A x \in RangeCalls :
                 (x[1] + x[4] <= x[3] \/ x[3] + x[4] <= x[1])
                    => \A o \in ClRangeAll(kind, This, x[1], x[2], x[3], x[4]) :
                          /\ ~o[2]
                          /\ Cardinality(Support(o[1].stateVec)) = 1
                          /\ o[1].qubitCount = qubitCount
                          /\ \A q \in Support(o[1].stateVec) :
                                RangeMeant(kind, p, q, x, qubitCount)

\* CLAND over two qubits with c = 3 has set the second output qubit although
\* the second input qubit holds 0
C18_SecondFromFirstInput ==
    /\ op.kind = "CLAND"
    /\ op.args = <<0, 3, 2, 2>>
    /\ Support(stateVec) = {13}

\* ------------------------------------------------------------------------
\* Copy construction and CloneRawState, of CoherentUnit and of Register
\* ------------------------------------------------------------------------
\* std::copy(first, first + count, out) into an array that holds fill in
\* every element
CopiedArray(sv, count, fill) ==
    [i \in DOMAIN sv |-> IF i < count THEN sv[i] ELSE fill]

\* The second object is the copy.  ret = 1 records that its stateVec is an
\* array of its own (new Complex16[maxQPower]), not the source's.
\* CoherentUnit::CoherentUnit(const CoherentUnit& pqs)
CopyConstruct ==
    /\ WellFormed
    /\ BecomesBoth(This,
                   [This EXCEPT !.stateVec = CopiedArray(stateVec, maxQPower, CZero)],
                   Did("CopyConstruct", <<>>, 1))

\* Register::Register(const Register& pqs): new Complex16[maxQPower] holds
\* zeros, and qubitCount elements are copied
RegCopyConstruct ==
    /\ WellFormed
    /\ BecomesBoth(This,
                   [This EXCEPT !.stateVec = CopiedArray(stateVec, qubitCount, CZero)],
                   Did("RegCopyConstruct", <<>>, 1))

\* CloneRawState(output) into a buffer of the caller; the second object is the
\* buffer afterwards and ret the number of elements written
CloneInto(kind, count) ==
    /\ WellFormed
    /\ \E fill \in {CZero, COne} :
          LET n == Normalized(This)
          IN  BecomesBoth(n, [n EXCEPT !.stateVec = CopiedArray(n.stateVec, count, fill)],
                          Did(kind, <<>>, count))

\* CoherentUnit::CloneRawState
CloneRawState == CloneInto("CloneRawState", maxQPower)

\* Register::CloneRawState
RegCloneRawState == CloneInto("RegCloneRawState", qubitCount)

\* X(q) on the copy: it writes the copy's array, which is the source's array
\* exactly when the copy was given none of its own
XOnCopy(q) ==
    /\ op.kind \in {"CopyConstruct", "RegCopyConstruct", "XOnCopy"}
    /\ q < other.qubitCount
    /\ LET c == Canon(DoX(other, q))
       IN  BecomesBoth(IF op.ret = 1 THEN This
                       ELSE [This EXCEPT !.stateVec = c.stateVec, !.scaleSq = c.scaleSq],
                       c, Did("XOnCopy", <<q>>, op.ret))

Uncopied == op.kind \in {"ctor", "H", "M"}

NextCopy ==
    \/ \E q \in Qubits : Uncopied /\ H(q)
    \/ \E q \in Qubits : Uncopied /\ M(q)
    \/ Uncopied /\ CopyConstruct
    \/ Uncopied /\ RegCopyConstruct
    \/ Uncopied /\ CloneRawState
    \/ Uncopied /\ RegCloneRawState
    \/ \E q \in 0 .. (MaxQubits - 1) : XOnCopy(q)

SpecCopy == Init /\ [][NextCopy]_vars

\* r holds the amplitudes of the register with array sv and factor sc
SameAmplitudes(r, sv, sc) ==
    Canon(r).stateVec = sv /\ (Support(sv) # {} => Canon(r).scaleSq = sc)

\* C20: a copy has the source's qubit count, running norm and all of its
\* 2^qubitCount amplitudes; CloneRawState writes all 2^qubitCount amplitudes
\* to the output; and an operation on the copy leaves the source's amplitudes
\* as they are.
C20_DeepCopy ==
    [][/\ op'.kind \in {"CopyConstruct", "RegCopyConstruct"}
          => /\ other'.qubitCount = qubitCount
             /\ other'.runningNormSq = runningNormSq
             /\ VecLen(other'.stateVec) = Pow2(qubitCount)
             /\ SameAmplitudes(other', stateVec, scaleSq)
       /\ op'.kind \in {"CloneRawState", "RegCloneRawState"}
          => /\ op'.ret = Pow2(qubitCount)
             /\ SameAmplitudes(other', stateVec', scaleSq')
       /\ op'.kind = "XOnCopy"
          => stateVec' = stateVec /\ scaleSq' = scaleSq]_vars

\* a Register has been copied whose amplitude at an index at or above
\* qubitCount is not zero
C20_RegisterCopyCutShort ==
    /\ op.kind = "RegCopyConstruct"
    /\ \E i \in DOMAIN stateVec : i >= qubitCount /\ stateVec[i] # CZero /\ other.stateVec[i] = CZero

\* ------------------------------------------------------------------------
\* Calls with a qubit index or a permutation out of range
\* ------------------------------------------------------------------------
\* the memory from the start of the array up to index top: the array, then
\* whatever lies behind it (g, repeated)
Beyond(sv, g, top) ==
    [i \in 0 .. top |-> IF i \in DOMAIN sv THEN sv[i] ELSE g[i % VecLen(sv)]]

\* the array again: the first len elements of the memory
Within(mem, len) == [i \in 0 .. (len - 1) |-> mem[i]]

\* what can lie behind the array when a call with index q reads there
Garbage(q) ==
    IF q < qubitCount THEN {[i \in 0 .. (maxQPower - 1) |-> CZero]}
    ELSE [0 .. (maxQPower - 1) -> {CZero, COne}]

\* some work-item of apply2x2 reads or writes stateVec[i + offset] at or
\* above index maxI
TouchesBeyond(bitCount, maxI, offset1, offset2, qPowersSorted) ==
    \E lcv \in 0 .. (maxI - 1) :
        LET i == ExpandIndex(0, bitCount, qPowersSorted, 0, lcv)
        IN  i < maxI /\ (i + offset1 >= maxI \/ i + offset2 >= maxI)

\* X(qubitIndex) as the code has it: the index is not compared with qubitCount
XAnyIndex(qubitIndex) ==
    /\ WellFormed
    /\ \E g \in Garbage(qubitIndex) :
          LET qPower == Shl(1, qubitIndex)
              mem == Beyond(stateVec, g, maxQPower - 1 + qPower)
              wide == DoX([This EXCEPT !.stateVec = mem], qubitIndex)
          IN  Becomes([wide EXCEPT !.stateVec = Within(wide.stateVec, maxQPower)],
                      [Did("X", <<qubitIndex>>, 0) EXCEPT
                          !.oob = TouchesBeyond(1, maxQPower, qPower, 0, <<qPower>>)])

\* std::fill(zero); stateVec[perm] = phase: in the array the element is set
\* only if perm is an index of it
PermutationVec(mqp, perm, phase) ==
    [i \in 0 .. (mqp - 1) |-> IF i = perm THEN phase ELSE CZero]

\* CoherentUnit(qBitCount, initState), a newly constructed register
Construct(qBitCount, initState) ==
    /\ \E phase \in Phases :
          Becomes(MkReg(qBitCount, Shl(1, qBitCount),
                        PermutationVec(Shl(1, qBitCount), initState, phase), ROne, ROne),
                  [Did("CoherentUnit", <<qBitCount, initState>>, 0) EXCEPT
                      !.was = qBitCount, !.oob = initState >= Shl(1, qBitCount)])

SetPermutation(perm) ==
    /\ WellFormed
    /\ \E phase \in Phases :
          Becomes([This EXCEPT !.stateVec = PermutationVec(maxQPower, perm, phase),
                               !.scaleSq = ROne, !.runningNormSq = ROne],
                  [Did("SetPermutation", <<qubitCount, perm>>, 0) EXCEPT
                      !.oob = perm >= maxQPower])

NextBounds ==
    \/ \E q \in 0 .. (MaxQubits + 1) : q <= qubitCount + 1 /\ XAnyIndex(q)
    \/ \E n \in 1 .. MaxQubits : \E perm \in 0 .. Pow2(MaxQubits) : Construct(n, perm)
    \/ \E perm \in 0 .. Pow2(MaxQubits) : SetPermutation(perm)

SpecBounds == Init /\ [][NextBounds]_vars

\* the last call had a qubit index or a permutation out of range
OutOfRange ==
    \/ op.kind = "X" /\ op.args[1] >= op.was
    \/ op.kind \in {"CoherentUnit", "SetPermutation"} /\ op.args[2] >= Pow2(op.args[1])

\* C21: a call with a qubit index >= qubitCount, or a permutation
\* >= 2^qubitCount, fails with InvalidArgument and accesses no amplitude
\* outside [0, 2^qubitCount).
C21_OutOfRangeRejected ==
    OutOfRange => (op.threw /\ ~op.oob)

\* X with a qubit index >= qubitCount has returned normally after reading
\* behind the array
C21_XReadBehindArray ==
    /\ op.kind = "X"
    /\ op.args[1] >= op.was
    /\ ~op.threw
    /\ op.oob

\* ------------------------------------------------------------------------
\* The constructors' qubit count and the width of 1<<k
\* ------------------------------------------------------------------------
\* C22: no constructor leaves an object with more than 64 qubits: with
\* qubit_count > 64 it fails with InvalidArgument and allocates nothing.
C22_TooManyQubitsRejected ==
    op.kind = "ctor" => qubitCount <= NativeBits

\* a register of 65 qubits has been constructed
C22_OverWideConstructed ==
    /\ op.kind = "ctor"
    /\ ~op.threw
    /\ qubitCount = NativeBits + 1

\* 1<<k has the one value 2^k
ShiftExact(k) == \A m \in ShiftedOne(k) : m # Huge /\ IsPow2Of(m, k)

\* C23: for every accepted qubit count in [1, 64] maxQPower is 2^qubitCount
\* and every 1<<k with k < qubitCount is 2^k.
C23_PowersExact ==
    (op.kind = "ctor" /\ qubitCount >= 1 /\ qubitCount <= NativeBits)
       => /\ IsPow2Of(maxQPower, qubitCount)
          /\ \A k \in 0 .. (qubitCount - 1) : ShiftExact(k)

\* a register of 64 qubits has been constructed with a one-element array
C23_SixtyFourQubitsOneElement ==
    /\ op.kind = "ctor"
    /\ qubitCount = NativeBits
    /\ maxQPower = 1
    /\ VecLen(stateVec) = 1

\* ------------------------------------------------------------------------
\* Swap, of CoherentUnit and of Register
\* ------------------------------------------------------------------------
\* CoherentUnit::Swap
Swap(qubitIndex1, qubitIndex2) ==
    /\ WellFormed
    /\ Becomes(DoSwap(This, qubitIndex1, qubitIndex2),
               Did("Swap", <<qubitIndex1, qubitIndex2>>, 0))

RECURSIVE RegSwapLoop(_, _, _, _, _)
\* Register::Swap, the par_for body over lcv in [0, maxQPower); the bodies
\* that pass the test touch disjoint pairs.  qPowers is <<qPowers[0],
\* qPowers[1], qPowers[2]>>.
RegSwapLoop(sv, mtrx, qPowers, maxI, lcv) ==
    LET Y0 == sv[lcv + qPowers[3]]
        q1 == sv[lcv + qPowers[2]]
        n0 == CAdd(CMul(mtrx[1], Y0), CMul(mtrx[2], q1))
        n1 == CAdd(CMul(mtrx[3], Y0), CMul(mtrx[4], q1))
    IN  IF lcv >= maxI THEN sv
        ELSE IF BitAnd(lcv, qPowers[1]) = 0
        THEN RegSwapLoop([sv EXCEPT ![lcv + qPowers[3]] = n0, ![lcv + qPowers[2]] = n1],
                         mtrx, qPowers, maxI, lcv + 1)
        ELSE RegSwapLoop(sv, mtrx, qPowers, maxI, lcv + 1)

\* Register::Swap with different indices: nrm = 1.0 / runningNorm, then
\* UpdateRunningNorm()
DoRegSwap(r, qubitIndex1, qubitIndex2) ==
    UpdateRunningNorm(
        [r EXCEPT !.stateVec = RegSwapLoop(r.stateVec, pauliX.m,
                                           <<Shl(1, qubitIndex1) + Shl(1, qubitIndex2),
                                             Shl(1, qubitIndex1), Shl(1, qubitIndex2)>>,
                                           r.maxQPower, 0),
                  !.scaleSq = RDiv(r.scaleSq, r.runningNormSq)])

\* Register::Swap
RegSwap(qubitIndex1, qubitIndex2) ==
    /\ WellFormed
    /\ IF qubitIndex1 = qubitIndex2
       THEN Becomes(This, Threw("RegSwap", <<qubitIndex1, qubitIndex2>>))
       ELSE Becomes(DoRegSwap(This, qubitIndex1, qubitIndex2),
                    Did("RegSwap", <<qubitIndex1, qubitIndex2>>, 0))

NextSwap ==
    \/ \E a \in Qubits : \E b \in Qubits : Swap(a, b)
    \/ \E a \in Qubits : \E b \in Qubits : RegSwap(a, b)

SpecSwap == InitPerm /\ [][NextSwap]_vars

\* index i with the values of bits a and b exchanged
ExchangeBits(i, a, b) == WithBit(WithBit(i, a, BitAt(i, b)), b, BitAt(i, a))

\* r holds at every exchanged index what was at the index before
IsExchanged(r, from, a, b) ==
    /\ r.scaleSq = from.scaleSq
    /\ \A i \in DOMAIN from.stateVec : r.stateVec[ExchangeBits(i, a, b)] = from.stateVec[i]

\* C24: Swap(a, a) returns normally and leaves the register unchanged;
\* Swap(a, b) moves the amplitude of every index to the index with bits a and
\* b exchanged; and Swap applied twice is the identity.
C24_SwapExchangesBits ==
    [][op'.kind \in {"Swap", "RegSwap"}
          => LET a == op'.args[1]
                 b == op'.args[2]
                 twice == IF op'.kind = "Swap" THEN Canon(DoSwap(ThisNext, a, b))
                          ELSE Canon(DoRegSwap(ThisNext, a, b))
             IN  /\ ~op'.threw
                 /\ IsExchanged(ThisNext, This, a, b)
                 /\ twice.stateVec = stateVec /\ twice.scaleSq = scaleSq]_vars

\* Register::Swap has been called with equal indices and has thrown
C24_RegisterSwapSameBit ==
    /\ op.kind = "RegSwap"
    /\ op.args[1] = op.args[2]
    /\ op.threw

\* ------------------------------------------------------------------------
\* OCLSingleton::Instance (src/qrack_ocl.cpp)
\* ------------------------------------------------------------------------
\* ocl.m_pInstance is 0 for NULL, else the number of the construction that
\* made the object it points to; ocl.built lists the <<plat, dev>> of every
\* InitOCL run; ocl.tpc and ocl.targ are each calling thread's position and
\* arguments; ocl.rets lists what the finished calls returned.
Threads == 1 .. MaxThreads
Devs == {<<0, 0>>, <<0, 1>>, <<1, 0>>}

OclStep(o) ==
    /\ ocl' = o
    /\ UNCHANGED <<regVars, pfVars, items, shared>>

InitOcl ==
    /\ RegIdle
    /\ PfIdle
    /\ items = <<>>
    /\ shared = <<>>
    /\ ocl = [NoOcl EXCEPT !.tpc = [t \in Threads |-> "out"],
                           !.targ = [t \in Threads |-> <<0, 0>>]]

Calling == {t \in Threads : ocl.tpc[t] # "out"}

\* a thread calls Instance() (InitOCL(0, 0) if it constructs) or
\* Instance(plat, dev)
InstanceCall(t, arg) ==
    /\ ocl.tpc[t] = "out"
    /\ Len(ocl.rets) + Cardinality(Calling) < MaxCalls
    /\ OclStep([ocl EXCEPT !.tpc[t] = "test", !.targ[t] = arg])

\* the same for a call made when no other call is under way
InstanceCallAlone(t, arg) == Calling = {} /\ InstanceCall(t, arg)

\* a thread that saw NULL constructs with every value this stands for
InstanceMissingAlways(o) == o.m_pInstance >= 0

\* if (!m_pInstance)
InstanceMissing(o) == o.m_pInstance = 0

InstanceTest(t) ==
    /\ ocl.tpc[t] = "test"
    /\ OclStep([ocl EXCEPT !.tpc[t] = IF InstanceMissing(ocl) THEN "new" ELSE "ret"])

\* m_pInstance = new OCLSingleton(plat, dev): the constructor runs InitOCL
InstanceNew(t) ==
    /\ ocl.tpc[t] = "new"
    /\ OclStep([ocl EXCEPT !.built = Append(@, ocl.targ[t]),
                           !.m_pInstance = Len(ocl.built) + 1,
                           !.tpc[t] = "ret"])

\* return m_pInstance;
InstanceReturn(t) ==
    /\ ocl.tpc[t] = "ret"
    /\ OclStep([ocl EXCEPT !.rets = Append(@, [ptr |-> ocl.m_pInstance, arg |-> ocl.targ[t]]),
                           !.tpc[t] = "out"])

\* calls one after the other
NextOcl ==
    \/ \E t \in Threads : \E arg \in Devs : InstanceCallAlone(t, arg)
    \/ \E t \in Threads : InstanceTest(t)
    \/ \E t \in Threads : InstanceNew(t)
    \/ \E t \in Threads : InstanceReturn(t)

SpecOcl == InitOcl /\ [][NextOcl]_vars

\* calls of several threads, statement by statement
NextOclRace ==
    \/ \E t \in Threads : \E arg \in Devs : InstanceCall(t, arg)
    \/ \E t \in Threads : InstanceTest(t)
    \/ \E t \in Threads : InstanceNew(t)
    \/ \E t \in Threads : InstanceReturn(t)

SpecOclRace == InitOcl /\ [][NextOclRace]_vars

C30_OneSingleton ==
    /\ Len(ocl.built) <= 1
    /\ \A i \in DOMAIN ocl.rets : \A j \in DOMAIN ocl.rets : ocl.rets[i].ptr = ocl.rets[j].ptr

\* two threads have both constructed and their calls returned different
\* pointers
C30_TwoSingletons ==
    /\ Len(ocl.built) = 2
    /\ Len(ocl.rets) = 2
    /\ ocl.rets[1].ptr # ocl.rets[2].ptr

\* ------------------------------------------------------------------------
\* the kernels addc and subc run by several work-items
\* ------------------------------------------------------------------------
\* ADDC and SUBC enqueue the kernel with local size 1: every work-item is a
\* work-group of its own, and barrier() holds back only the work-items of
\* one group.  items[w] is work-item w's loop (1, 2, 3; 4 when it has left
\* the kernel) and lcv.  shared.n is nStateVec: a cell's value is x, or
\* sqrt(x) once the third loop has rewritten it, plus what was added to it
\* afterwards; shared.last is the last store: the work-item, its loop and
\* the index; shared.by[j] are the work-items that have accumulated into j.
WorkItems == DOMAIN items

\* std::fill(nStateVec, Complex16(0.0, 0.0))
FreshCell == [x |-> 0, rooted |-> FALSE, plus |-> 0]

CarryKernels == {"addc", "subc"}

\* the index read and the index written by the first loop at lcv
CarryIn0(lcv) ==
    IF shared.kernel = "addc" THEN addcIn0(lcv, shared.a) ELSE subcIn0(lcv, shared.a)

\* the same for the second loop
CarryIn1(lcv) ==
    IF shared.kernel = "addc" THEN addcIn1(lcv, shared.a) ELSE subcIn1(lcv, shared.a)

\* enqueueNDRangeKernel(addc or subc, NullRange, NDRange(Nthreads), NDRange(1))
CarryLaunched(kernel, a, Nthreads) ==
    /\ items = [w \in 0 .. (Nthreads - 1) |-> [pass |-> 1, lcv |-> w]]
    /\ shared = [kernel |-> kernel, a |-> a,
                 n |-> [j \in 0 .. (a.maxQPower - 1) |-> FreshCell],
                 by |-> [j \in 0 .. (a.maxQPower - 1) |-> {}],
                 last |-> [w |-> 0, pass |-> 0, idx |-> 0]]

\* a unit of MaxQubits + 1 qubits in a permutation state, and a launch of
\* addc or subc on it with registers of one qubit
InitCarryItems ==
    /\ PfIdle
    /\ ocl = NoOcl
    /\ \E perm \in 0 .. (Pow2(MaxQubits + 1) - 1) :
          /\ qubitCount = MaxQubits + 1
          /\ maxQPower = Shl(1, MaxQubits + 1)
          /\ stateVec = BasisVec(MaxQubits + 1, perm, COne)
          /\ scaleSq = ROne
          /\ runningNormSq = ROne
    /\ op = Did("ctor", <<>>, 0)
    /\ other = NoReg
    /\ \E inOutStart \in Qubits : \E inStart \in Qubits : \E carryIndex \in Qubits :
       \E kernel \in CarryKernels : \E Nthreads \in 1 .. MaxItems :
          /\ CarryLayout(inOutStart, inStart, 1, carryIndex)
          /\ CarryLaunched(kernel, CarryArgs(This, inOutStart, inStart, 1, carryIndex), Nthreads)

\* a step of work-item w: its position and the buffer it shares
ItemStep(w, it, sh) ==
    /\ items' = [items EXCEPT ![w] = it]
    /\ shared' = sh
    /\ UNCHANGED <<regVars, pfVars, ocl>>

\* lcv += Nthreads
NextLcv(w) == [items[w] EXCEPT !.lcv = @ + Cardinality(WorkItems)]

\* first loop: nStateVec[outRes].x = temp.x + temp.y
CarryLoop1(w) ==
    /\ items[w].pass = 1
    /\ items[w].lcv < shared.a.maxI
    /\ LET io == CarryIn0(items[w].lcv)
       IN  ItemStep(w, NextLcv(w),
                    [shared EXCEPT !.n[io[2]] = [x |-> CellNorm(This, io[1]),
                                                 rooted |-> FALSE, plus |-> 0],
                                   !.last = [w |-> w, pass |-> 1, idx |-> io[2]]])

\* second loop: nStateVec[outRes].x += temp.x + temp.y
CarryLoop2(w) ==
    /\ items[w].pass = 2
    /\ items[w].lcv < shared.a.maxI
    /\ LET io == CarryIn1(items[w].lcv)
           c == shared.n[io[2]]
       IN  ItemStep(w, NextLcv(w),
                    [shared EXCEPT !.n[io[2]] =
                                      IF c.rooted THEN [c EXCEPT !.plus = @ + CellNorm(This, io[1])]
                                      ELSE [c EXCEPT !.x = @ + CellNorm(This, io[1])],
                                   !.by[io[2]] = @ \cup {w},
                                   !.last = [w |-> w, pass |-> 2, idx |-> io[2]]])

\* third loop: nStateVec[lcv] = sqrt(nStateVec[lcv].x) * (cos, sin)(nStateVec[lcv].y)
CarryLoop3(w) ==
    /\ items[w].pass = 3
    /\ items[w].lcv < shared.a.maxI
    /\ ItemStep(w, NextLcv(w),
                [shared EXCEPT !.n[items[w].lcv] = [x |-> @.x, rooted |-> TRUE, plus |-> 0],
                               !.last = [w |-> w, pass |-> 3, idx |-> items[w].lcv]])

\* barrier(CLK_GLOBAL_MEM_FENCE) after the first and the second loop: the
\* work-item is alone in its group and goes on
CarryBarrier(w) ==
    /\ items[w].pass \in {1, 2}
    /\ items[w].lcv >= shared.a.maxI
    /\ ItemStep(w, [pass |-> items[w].pass + 1, lcv |-> w], shared)

\* the work-item leaves the kernel
CarryExit(w) ==
    /\ items[w].pass = 3
    /\ items[w].lcv >= shared.a.maxI
    /\ ItemStep(w, [items[w] EXCEPT !.pass = 4], shared)

NextCarryItems ==
    \/ \E w \in WorkItems : CarryLoop1(w)
    \/ \E w \in WorkItems : CarryLoop2(w)
    \/ \E w \in WorkItems : CarryLoop3(w)
    \/ \E w \in WorkItems : CarryBarrier(w)
    \/ \E w \in WorkItems : CarryExit(w)

SpecCarryItems == InitCarryItems /\ [][NextCarryItems]_vars

\* what one work-item running the kernel alone leaves in nStateVec
CarryAlone ==
    LET sums == IF shared.kernel = "addc" THEN AddcSums(This, shared.a)
                ELSE SubcSums(This, shared.a)
    IN  [j \in DOMAIN sums |-> [x |-> sums[j], rooted |-> j < shared.a.maxI, plus |-> 0]]

ItemsDone == \A w \in WorkItems : items[w].pass = 4

\* the accumulations the second loop makes into index j
CarryDue(j) == {lcv \in 0 .. (shared.a.maxI - 1) : CarryIn1(lcv)[2] = j}

\* C29: with several work-items, every assignment of the first loop to an
\* output index comes before every accumulation of the second loop into it
\* by another work-item, every rewrite of the third loop comes after all
\* the accumulations into its index, and what the work-items leave is what
\* the kernel run by one work-item leaves: no contribution is lost.
C29_PassesInOrder ==
    /\ shared.last.pass = 1 => shared.by[shared.last.idx] \subseteq {shared.last.w}
    /\ shared.last.pass = 3
          => \A lcv \in CarryDue(shared.last.idx) :
                \E w \in WorkItems :
                   /\ lcv % Cardinality(WorkItems) = w
                   /\ \/ items[w].pass > 2
                      \/ items[w].pass = 2 /\ items[w].lcv > lcv
    /\ ItemsDone => shared.n = CarryAlone

\* all work-items have left the kernel and a cell holds less than the sum
\* one work-item leaves in it
C29_ContributionLost ==
    /\ ItemsDone
    /\ Cardinality(WorkItems) > 1
    /\ \E j \in DOMAIN shared.n : ~shared.n[j].rooted /\ shared.n[j].x < CarryAlone[j].x

\* ------------------------------------------------------------------------
\* the kernel apply2x2 run by several work-items: the indices and the pairs
\* ------------------------------------------------------------------------
\* ulong[] of Apply2x2: bitCount, maxQPower, offset1, offset2, qPowersSorted
PairArgs(n, offset1, offset2, bitCount, qPowersSorted) ==
    [bitCount |-> bitCount, maxI |-> Shl(1, n), offset1 |-> offset1, offset2 |-> offset2,
     qPowersSorted |-> qPowersSorted]

\* the launches ApplySingleBit, ApplyControlled2x2, ApplyAntiControlled2x2,
\* CCNOT, AntiCCNOT and Swap make on n qubits with arguments they accept
Dispatches(n) ==
    LET Q == 0 .. (n - 1)
    IN  {PairArgs(n, Shl(1, q), 0, 1, <<Shl(1, q)>>) : q \in Q}
        \cup {PairArgs(n, Shl(1, c[1]) + Shl(1, c[2]), Shl(1, c[1]), 2, SortedPowers(c[1], c[2])) :
                 c \in {d \in Q \X Q : d[1] # d[2]}}
        \cup {PairArgs(n, 0, Shl(1, c[2]), 2, SortedPowers(c[1], c[2])) :
                 c \in {d \in Q \X Q : d[1] # d[2]}}
        \cup {PairArgs(n, Shl(1, c[1]) + Shl(1, c[2]) + Shl(1, c[3]), Shl(1, c[1]) + Shl(1, c[2]), 3,
                       SortedSeq({Shl(1, c[1]), Shl(1, c[2]), Shl(1, c[3])})) :
                 c \in {d \in Q \X Q \X Q : d[1] # d[2] /\ d[1] # d[3] /\ d[2] # d[3]}}
        \cup {PairArgs(n, 0, Shl(1, c[3]), 3,
                       SortedSeq({Shl(1, c[1]), Shl(1, c[2]), Shl(1, c[3])})) :
                 c \in {d \in Q \X Q \X Q : d[1] # d[2] /\ d[1] # d[3] /\ d[2] # d[3]}}
        \cup {PairArgs(n, Shl(1, c[2]), Shl(1, c[1]), 2, SortedPowers(c[1], c[2])) :
                 c \in {d \in Q \X Q : d[1] # d[2]}}

\* enqueueNDRangeKernel(apply2x2, NullRange, NDRange(Nthreads), NDRange(1)):
\* shared.seen[i] counts the iterations that produced index i,
\* shared.touched[c] those that read and wrote stateVec[c], shared.beyond
\* tells that one of them reached past the array
InitPairs ==
    /\ RegIdle
    /\ PfIdle
    /\ ocl = NoOcl
    /\ \E n \in 1 .. (MaxQubits + 2) : \E ul \in Dispatches(n) : \E Nthreads \in 1 .. MaxItems :
          /\ items = [w \in 0 .. (Nthreads - 1) |-> [pass |-> 1, lcv |-> w]]
          /\ shared = [ul |-> ul,
                       seen |-> [i \in 0 .. (ul.maxI - 1) |-> 0],
                       touched |-> [i \in 0 .. (ul.maxI - 1) |-> 0],
                       beyond |-> FALSE]

\* the expansion without the insertion of the qubits' bits
ItemIndexPlain(lcv) == lcv

\* iHigh = lcv; i = 0; for (p...) {...}; i += iHigh
ItemIndex(lcv) == ExpandIndex(0, shared.ul.bitCount, shared.ul.qPowersSorted, 0, lcv)

Touch(t, c) == IF c \in DOMAIN t THEN [t EXCEPT ![c] = @ + 1] ELSE t

\* one turn of while (i < maxI): the pair at i + offset1 and i + offset2 is
\* read and written, then lcv += Nthreads and i is expanded from it
PairTurn(w) ==
    LET i == ItemIndex(items[w].lcv)
        c1 == i + shared.ul.offset1
        c2 == i + shared.ul.offset2
    IN  /\ items[w].pass = 1
        /\ i < shared.ul.maxI
        /\ ItemStep(w, NextLcv(w),
                    [shared EXCEPT !.seen = Touch(@, i),
                                   !.touched = Touch(Touch(@, c1), c2),
                                   !.beyond = @ \/ c1 >= shared.ul.maxI \/ c2 >= shared.ul.maxI])

\* i >= maxI: the work-item leaves the kernel
PairLeave(w) ==
    /\ items[w].pass = 1
    /\ ItemIndex(items[w].lcv) >= shared.ul.maxI
    /\ ItemStep(w, [items[w] EXCEPT !.pass = 4], shared)

NextPairs ==
    \/ \E w \in WorkItems : PairTurn(w)
    \/ \E w \in WorkItems : PairLeave(w)

SpecPairs == InitPairs /\ [][NextPairs]_vars

\* index i has the bit of every listed qubit clear
ListedClear(i) ==
    \A p \in 1 .. shared.ul.bitCount : BitAnd(i, shared.ul.qPowersSorted[p]) = 0

\* C27: with one to three ascending powers and any number of work-items,
\* the turns of all work-items produce only indices below maxI with every
\* listed bit clear, each at most once and, when all work-items have left,
\* each exactly once; no amplitude is touched by two turns and none lies
\* outside the array, for the offsets of every dispatch.
C27_IndicesOnceEach ==
    /\ \A i \in DOMAIN shared.seen :
          /\ shared.seen[i] <= 1
          /\ shared.seen[i] = 1 => ListedClear(i)
          /\ ItemsDone /\ ListedClear(i) => shared.seen[i] = 1
    /\ \A c \in DOMAIN shared.touched : shared.touched[c] <= 1
    /\ ~shared.beyond

\* a launch with three powers and several work-items has ended, and two
\* work-items each made a turn
C27_ThreePowersShared ==
    /\ ItemsDone
    /\ shared.ul.bitCount = 3
    /\ Cardinality(WorkItems) > 1
    /\ shared.seen[0] = 1
    /\ \E i \in DOMAIN shared.seen : i > 0 /\ shared.seen[i] = 1

\* ------------------------------------------------------------------------
\* the kernel apply2x2: the arithmetic of one turn
\* ------------------------------------------------------------------------
\* Y0 = qubit[0];
\* qubit[0] = zmul(nrm, (zmul(mtrx[0], Y0) + zmul(mtrx[1], qubit[1])));
\* qubit[1] = zmul(nrm, (zmul(mtrx[2], Y0) + zmul(mtrx[3], qubit[1])));
KernelPair(mtrx, nrm, Y0, q1) ==
    <<zmul(nrm, CAdd(zmul(mtrx[1], Y0), zmul(mtrx[2], q1))),
      zmul(nrm, CAdd(zmul(mtrx[3], Y0), zmul(mtrx[4], q1)))>>

\* the entries the matrix, the amplitudes and nrm are drawn from
SmallGauss == {CZero, COne, <<0, 1>>, <<-1, 0>>, <<1, 1>>}

\* one work-item before its turn: cmplxPtr and the pair at i + offset1 and
\* i + offset2
InitTurn ==
    /\ RegIdle
    /\ PfIdle
    /\ ocl = NoOcl
    /\ items = <<>>
    /\ \E m0 \in SmallGauss : \E m1 \in SmallGauss : \E m2 \in SmallGauss : \E m3 \in SmallGauss :
       \E nrm \in SmallGauss : \E a \in SmallGauss : \E b \in SmallGauss :
          shared = [mtrx |-> <<m0, m1, m2, m3>>, nrm |-> nrm, pair |-> <<a, b>>, stored |-> <<>>]

\* stateVec[i + offset1] = qubit[0]; stateVec[i + offset2] = qubit[1];
StorePair ==
    /\ shared.stored = <<>>
    /\ shared' = [shared EXCEPT !.stored = KernelPair(shared.mtrx, shared.nrm,
                                                      shared.pair[1], shared.pair[2])]
    /\ UNCHANGED <<regVars, pfVars, ocl, items>>

NextTurn == StorePair

SpecTurn == InitTurn /\ [][NextTurn]_vars

\* nrm * (M[row] * a + M[row + 1] * b) under ordinary complex multiplication
PairMeant(row) ==
    CMul(shared.nrm, CAdd(CMul(shared.mtrx[row], shared.pair[1]),
                          CMul(shared.mtrx[row + 1], shared.pair[2])))

C26_RunningNormIsNorm == runningNormSq = NormSq(This)

\* a controlled gate has left runningNorm at 1.0 over amplitudes whose
\* squared magnitudes do not sum to 1
C26_OneOverUnnormalized ==
    /\ op.kind = "CNOT"
    /\ runningNormSq = ROne
    /\ NormSq(This) # ROne

\* ------------------------------------------------------------------------
\* par_for (src/par_for.hpp)
\* ------------------------------------------------------------------------
Cpus == 0 .. (num_cpus - 1)

InitParFor ==
    /\ RegIdle
    /\ OclIdle
    /\ num_cpus \in 0 .. MaxCpus
    /\ end \in 0 .. MaxEnd
    /\ begin \in 0 .. end
    /\ idx = begin
    /\ futures = 0
    /\ joined = 0
    /\ wpc = [cpu \in 0 .. (num_cpus - 1) |-> "unborn"]
    /\ wi = [cpu \in 0 .. (num_cpus - 1) |-> 0]
    /\ calls = [i \in 0 .. MaxEnd |-> 0]
    /\ mpc = "launch"

\* futures[cpu] = std::async(std::launch::async, ...), in cpu order
Launch ==
    /\ mpc = "launch"
    /\ futures < num_cpus
    /\ wpc' = [wpc EXCEPT ![futures] = "fetch"]
    /\ futures' = futures + 1
    /\ UNCHANGED <<num_cpus, begin, end, idx, joined, wi, calls, mpc>>
    /\ UNCHANGED <<regVars, oclVars>>

\* the launch loop ends when cpu == num_cpus
LaunchDone ==
    /\ mpc = "launch"
    /\ futures = num_cpus
    /\ mpc' = "join"
    /\ UNCHANGED <<num_cpus, begin, end, idx, futures, joined, wpc, wi, calls>>
    /\ UNCHANGED <<regVars, oclVars>>

\* i = idx++;  if (i >= end) break;
Fetch(cpu) ==
    /\ wpc[cpu] = "fetch"
    /\ wi' = [wi EXCEPT ![cpu] = idx]
    /\ idx' = idx + 1
    /\ wpc' = [wpc EXCEPT ![cpu] = IF idx >= end THEN "done" ELSE "body"]
    /\ UNCHANGED <<num_cpus, begin, end, futures, joined, calls, mpc>>
    /\ UNCHANGED <<regVars, oclVars>>

\* fn(i, cpu, ...)
Body(cpu) ==
    /\ wpc[cpu] = "body"
    /\ calls' = [calls EXCEPT ![wi[cpu]] = @ + 1]
    /\ wpc' = [wpc EXCEPT ![cpu] = "fetch"]
    /\ UNCHANGED <<num_cpus, begin, end, idx, futures, joined, wi, mpc>>
    /\ UNCHANGED <<regVars, oclVars>>

JoinNoWait ==
    /\ mpc = "join"
    /\ joined < num_cpus
    /\ joined' = joined + 1
    /\ UNCHANGED <<num_cpus, begin, end, idx, futures, wpc, wi, calls, mpc>>
    /\ UNCHANGED <<regVars, oclVars>>

\* futures[cpu].get(), in cpu order: blocks until that worker has finished
Join ==
    /\ mpc = "join"
    /\ joined < num_cpus
    /\ wpc[joined] = "done"
    /\ joined' = joined + 1
    /\ UNCHANGED <<num_cpus, begin, end, idx, futures, wpc, wi, calls, mpc>>
    /\ UNCHANGED <<regVars, oclVars>>

\* the join loop ends when cpu == num_cpus and par_for returns
Return ==
    /\ mpc = "join"
    /\ joined = num_cpus
    /\ mpc' = "returned"
    /\ UNCHANGED <<num_cpus, begin, end, idx, futures, joined, wpc, wi, calls>>
    /\ UNCHANGED <<regVars, oclVars>>

Worker(cpu) == cpu \in Cpus /\ (Fetch(cpu) \/ Body(cpu))

NextParFor ==
    \/ Launch
    \/ LaunchDone
    \/ \E cpu \in Cpus : Fetch(cpu)
    \/ \E cpu \in Cpus : Body(cpu)
    \/ Join
    \/ Return

SpecParFor == InitParFor /\ [][NextParFor]_vars

\* Fair scheduling: every launched thread and the calling thread keep running
SpecParForFair ==
    /\ InitParFor
    /\ [][NextParFor]_vars
    /\ \A cpu \in 0 .. (MaxCpus - 1) : WF_vars(Worker(cpu))
    /\ WF_vars(Launch \/ LaunchDone \/ Join \/ Return)

\* C3: when par_for has returned, the body was invoked exactly once for every
\* index in [begin, end) and never for an index outside it, and at no time
\* is an index invoked twice or an outside index invoked at all.
C3_ExactlyOnce ==
    /\ \A i \in 0 .. MaxEnd :
          /\ calls[i] <= 1
          /\ (i < begin \/ i >= end) => calls[i] = 0
    /\ mpc = "returned" =>
          \A i \in 0 .. MaxEnd : (begin <= i /\ i < end) => calls[i] = 1

\* a par_for that returned without any worker while indices were pending
C3_NoWorker ==
    /\ mpc = "returned"
    /\ num_cpus = 0
    /\ begin < end
    /\ \A i \in 0 .. MaxEnd : calls[i] = 0

\* C4: par_for returns only after every worker has left its loop (so every
\* body invocation has completed), and under fair scheduling every worker
\* eventually leaves its loop and the call eventually returns.
C4_ForkJoin ==
    /\ [](mpc = "returned" => \A cpu \in Cpus : wpc[cpu] = "done")
    /\ <>(mpc = "returned" /\ \A cpu \in Cpus : wpc[cpu] = "done")

C4_Returned ==
    /\ mpc = "returned"
    /\ num_cpus = MaxCpus
    /\ end - begin >= 2
    /\ \A cpu \in Cpus : wpc[cpu] = "done"
    /\ \A i \in 0 .. MaxEnd : (begin <= i /\ i < end) => calls[i] = 1

====
